---- MODULE Spec2Model ----
(***************************************************************************)
(* Token lifecycle and request execution of the Monta API client           *)
(* (custom_components/monta/api.py, the revision with the in-client 429    *)
(* gate; monta-python/monta/client.py is the same token state machine      *)
(* without the gate).                                                      *)
(*                                                                         *)
(* One client instance is shared by the callers in Callers.  Every caller  *)
(* is a coroutine of the event loop: a step of the model runs one          *)
(* coroutine from one suspension point (lock acquisition, HTTP response,   *)
(* end of a sleep) to the next.  Time is in whole seconds.                 *)
(***************************************************************************)
EXTENDS Integers, Sequences, FiniteSets, TLC

\* ---------------------------------------------------------------- bounds
\* Last second of the modelled clock.
MaxNow == 2

\* ------------------------------------------------------ program constants
PREEMPTIVE_REFRESH_TTL_IN_SECONDS == 300
SHORT_RETRY_THRESHOLD_SECONDS == 2
max_short_retries == 2

\* Python None of a token / of a datetime held in an integer field.
NoToken == 0
NoTime == -1

\* The coroutines that use the client concurrently.
Callers == {"c1", "c2", "c3"}
NoCaller == "none"

\* retry_after_seconds = None: the 429 body names no resetsIn.
NoReset == -1

\* remaining = None: the 429 body names no remaining quota.
NoQuota == -1

Max(a, b) == IF a >= b THEN a ELSE b

\* ------------------------------------------------------------ expiry values
\* An expiry field holds None, a datetime object or a string.  A string is an
\* ISO 8601 text of second t ("str") or a text that is no date ("bad").
NoExpiry == [k |-> "none", t |-> 0]
Dt(t) == [k |-> "dt", t |-> t]
Iso(t) == [k |-> "str", t |-> t]
Garbage == [k |-> "bad", t |-> 0]

\* dt_util.parse_datetime / models._parse_datetime: the datetime an ISO text
\* denotes, None for any other text.
parse_datetime(s) == IF s.k = "str" THEN Dt(s.t) ELSE IF s.k = "dt" THEN s ELSE NoExpiry

\* What the JSON encoder of the store writes for a field.
isoformat(e) == IF e.k = "dt" THEN Iso(e.t) ELSE e

\* ------------------------------------------------------------- token state
\* self._prefs: set = FALSE is Python None (not loaded yet).
NoPrefs ==
    [set |-> FALSE, access_token |-> NoToken, access_expire_time |-> NoExpiry,
     refresh_token |-> NoToken, refresh_expire_time |-> NoExpiry]

EmptyPrefs == [NoPrefs EXCEPT !.set = TRUE]

\* async_load_preferences: the stored mapping, or the all-None mapping.
async_load_preferences(p, st) ==
    IF p.set THEN p ELSE IF st.set THEN st ELSE EmptyPrefs

\* The JSON form of the mapping: what a store holds once it has saved it.
ToJson(p) ==
    [p EXCEPT !.access_expire_time = isoformat(@),
              !.refresh_expire_time = isoformat(@)]

\* A variant of async_save that writes nothing.
MutSaveNothing(st, p) == st

\* self._store.async_save(self._prefs) at the end of
\* _async_update_preferences: the store st afterwards.
async_save(st, p) == ToJson(p)

\* Variants of the validity check: the window's edge counted as valid; the
\* window left out.
MutIsTokenValidNonStrict(tok, exp, t) ==
    /\ tok # NoToken
    /\ exp.k # "none"
    /\ t <= parse_datetime(exp).t - PREEMPTIVE_REFRESH_TTL_IN_SECONDS

MutIsTokenValidNoWindow(tok, exp, t) ==
    /\ tok # NoToken
    /\ exp.k # "none"
    /\ t < parse_datetime(exp).t

\* _is_access_token_valid / _is_refresh_token_valid on one (token, expiry) pair.
IsTokenValid(tok, exp, t) ==
    /\ tok # NoToken
    /\ exp.k # "none"
    /\ t < parse_datetime(exp).t - PREEMPTIVE_REFRESH_TTL_IN_SECONDS

_is_access_token_valid(p, t) == IsTokenValid(p.access_token, p.access_expire_time, t)

_is_refresh_token_valid(p, t) == IsTokenValid(p.refresh_token, p.refresh_expire_time, t)

\* _async_update_preferences: each argument that is not None overwrites its field.
_async_update_preferences(p, at, ae, rt, re) ==
    [set |-> TRUE,
     access_token |-> IF at # NoToken THEN at ELSE p.access_token,
     access_expire_time |-> IF ae.k # "none" THEN ae ELSE p.access_expire_time,
     refresh_token |-> IF rt # NoToken THEN rt ELSE p.refresh_token,
     refresh_expire_time |-> IF re.k # "none" THEN re ELSE p.refresh_expire_time]

\* ------------------------------------------------------------------ server
\* The paths of the REST API: the two token endpoints and, as one, the
\* endpoints of the domain operations (which carry the bearer token).
TokenPaths == {"auth/token", "auth/refresh"}
Paths == TokenPaths \cup {"api"}

\* An expiry that stays more than the preemptive window away for as long as the
\* modelled clock runs.
FarFuture == PREEMPTIVE_REFRESH_TTL_IN_SECONDS + MaxNow + 1

\* resetsIn of a 429 body (seconds), or none.
ResetsIn == {0, 1, 2, 3, NoReset}

\* An expiration date of a token response: an ISO text (of second 300, which
\* is never more than the preemptive window away, of second 301, which is at
\* second 0 only, or of FarFuture), or a text that is no date.
PayloadExpiries ==
    {Iso(PREEMPTIVE_REFRESH_TTL_IN_SECONDS),
     Iso(PREEMPTIVE_REFRESH_TTL_IN_SECONDS + 1), Iso(FarFuture), Garbage}

\* The server mints tokens the client does not hold yet: access tokens are 1
\* and 2, refresh tokens 3 and 4.
FreshToken(p) == IF p.access_token = 1 THEN 2 ELSE 1
FreshRefreshToken(p) == IF p.refresh_token = 3 THEN 4 ELSE 3

\* remaining of a 429 body: the quota left (none, when the limit is hit), or
\* not named.
Remaining == {0, NoQuota}

\* A response: accessToken, refreshToken and the two expiration dates of a
\* token response's body, resetsIn and remaining of a 429's.  body: "json" is
\* a body of the documented shape, "malformed" one that does not parse (a 2xx
\* body that is no JSON, a 429 whose resetsIn is no number), "incomplete" a
\* JSON object without the accessToken key.
NoResp ==
    [kind |-> "none", status |-> 0, body |-> "json", resetsIn |-> NoReset,
     remaining |-> NoQuota,
     tok |-> NoToken, rtok |-> NoToken, ae |-> NoExpiry, re |-> NoExpiry]

\* ------------------------------------------------------------------ results
NoRet ==
    [kind |-> "none", val |-> NoToken, retry_after |-> NoReset, reset_at |-> NoTime,
     remaining |-> NoQuota]
Returned(v) == [NoRet EXCEPT !.kind = "ok", !.val = v]
\* A variant that raises the base error whatever the failure.
MutRaisedBase(e) == [NoRet EXCEPT !.kind = "Error"]

Raised(e) == [NoRet EXCEPT !.kind = e]
RateLimitError(after, at) ==
    [kind |-> "RateLimitError", val |-> NoToken, retry_after |-> after, reset_at |-> at,
     remaining |-> NoQuota]

NoReq == [path |-> "none", tok |-> NoToken]

\* Bookkeeping of the call a caller is in (or has just ended): the branch
\* get_access_token took, the _api_wrapper calls made and the HTTP requests
\* sent per path, whether a request was sent while the gate was closed, and
\* the token state and the store as the operation found them.
NoHist ==
    [route |-> "none",
     calls |-> [x \in Paths |-> 0], http |-> [x \in Paths |-> 0],
     sentWhileBlocked |-> FALSE,
     before |-> [prefs |-> NoPrefs, store |-> NoPrefs]]

VARIABLES
    now,                 \* dt_util.utcnow(), seconds
    prefs,               \* self._prefs
    store,               \* what self._store holds (Store.async_load would return)
    lock,                \* the caller holding self._get_token_lock, or NoCaller
    waiters,             \* the callers queued on the lock, first come first
    rate_limited_until,  \* self._rate_limited_until
    pc,                  \* where each caller is
    op,                  \* the operation each caller is in
    req,                 \* the request of the caller's running _api_wrapper call
    attempt,             \* _api_wrapper's attempt
    wake,                \* when the caller's asyncio.sleep ends
    resp,                \* the last response the caller received
    ret,                 \* how the caller's last operation ended
    hist,                \* bookkeeping of the caller's (last) operation
    listing,             \* a listing operation: the response body and the result
    coord,               \* the coordinator, its charge point and its last operation
    hass,                \* hass.data[DOMAIN], the config entries' load states
    flow,                \* the config entry's data and the last step of a flow
    logged,              \* response bodies and what the client's log shows of them
    sched                \* a rate-limited poll cycle and the poll scheduled after it

\* The client's own state, and the state of what is built on the client.
clientVars ==
    <<now, prefs, store, lock, waiters, rate_limited_until, pc, op, req,
      attempt, wake, resp, ret, hist>>

hostVars == <<listing, coord, hass, flow, logged, sched>>

vars == <<clientVars, hostVars>>

\* The client as constructed over an empty store, with no caller in it.
ClientIdle ==
    /\ now = 0
    /\ prefs = NoPrefs
    /\ store = NoPrefs
    /\ lock = NoCaller
    /\ waiters = <<>>
    /\ rate_limited_until = NoTime
    /\ pc = [c \in Callers |-> "idle"]
    /\ op = [c \in Callers |-> "none"]
    /\ req = [c \in Callers |-> NoReq]
    /\ attempt = [c \in Callers |-> 0]
    /\ wake = [c \in Callers |-> 0]
    /\ resp = [c \in Callers |-> NoResp]
    /\ ret = [c \in Callers |-> NoRet]
    /\ hist = [c \in Callers |-> NoHist]

\* No listing is being parsed.
NoListing == [fn |-> "none", present |-> FALSE, data |-> <<>>, state |-> "none", out |-> <<>>]

\* const.py
BASE_UPDATE_INTERVAL_SECONDS == 30
MAX_UPDATE_INTERVAL_SECONDS == 300

\* self._charge_points_cache is None (otherwise: the number of charge points
\* in it).
NoCache == -1

\* No poll cycle has been followed through its steps.  Of a cycle: whether it
\* refreshed the charge-point list, the number of cached charge points it
\* fetched charges over, the index it started from, the positions it called
\* async_get_charges for, in order, and the step that failed ("none": the
\* cycle succeeded).
NoStagger == [ran |-> FALSE, refreshed |-> FALSE, n |-> 0, from |-> 0, fetched |-> <<>>,
              failed |-> "none"]

\* MontaDataUpdateCoordinator.__init__, with the bookkeeping of its last
\* operation: the caller-facing operation, the charge point's state it found,
\* the client calls made (the listing, the charge point ids started, the
\* charge ids stopped), the client result that ended it and how it ended;
\* and MontaSwitch.__init__ of the charge point's switch (_local_state, one
\* of "None", "True", "False"); the charge-point cache (its size), the
\* index of the staggered charges, the steps of the last poll cycle and the
\* positions fetched by the successful cycles that followed one another
\* since the last list refresh or failure.
NoCoord ==
    [update_interval |-> BASE_UPDATE_INTERVAL_SECONDS,
     state |-> "available",
     call |-> "none", found |-> "none", listed |-> FALSE, charges |-> <<>>,
     starts |-> <<>>, stops |-> <<>>,
     client |-> NoRet, before |-> BASE_UPDATE_INTERVAL_SECONDS, result |-> "none",
     _local_state |-> "None",
     cps |-> NoCache, _charges_index |-> 0, cycle |-> NoStagger, run |-> <<>>]

\* The config entries of the model, and the coordinators set up per entry.
EntryIds == {"e1", "e2"}
Coordinators == {"charge_point", "wallet", "transaction"}

\* No MontaApiClient instance (instances are numbered from 1).
NoClient == 0

\* hass.data[DOMAIN] without the entry: nothing registered under its id.
NotRegistered == [registered |-> FALSE, clients |-> [k \in Coordinators |-> NoClient]]

\* Home Assistant before any entry is set up: per entry what is registered
\* under its id, whether the entry is loaded, and its last lifecycle call
\* with the registration that call found; the number of MontaApiClient
\* instances constructed so far; what the token store held when the last
\* setup removed it.
NoHass ==
    [data |-> [e \in EntryIds |-> NotRegistered],
     loaded |-> [e \in EntryIds |-> FALSE],
     last |-> [e \in EntryIds |-> "none"],
     found |-> [e \in EntryIds |-> NotRegistered],
     constructed |-> 0,
     removed |-> NoPrefs]

\* The credentials a form may carry (client id, client secret).
Credentials == [client_id : {1, 2}, client_secret : {1, 2}]

\* A step called with user_input None (the form is shown for the first time).
NoInput == [client_id |-> 0, client_secret |-> 0]

\* No flow step has run and no config entry exists: the data of the entries
\* created, and of the last step its name, the entry it was about (options
\* flow), its user_input, the entries it found, the number of request_token()
\* calls it made with what the last one ended in, its result and errors["base"].
NoFlow ==
    [entries |-> <<>>,
     step |-> "none", which |-> 0, input |-> NoInput, before |-> <<>>,
     requests |-> 0, client |-> "none", result |-> "none", errors |-> "none"]

\* A JSON value of a response body: a scalar (t = "s", here a string), a list
\* of scalars ("l") or an object ("d") with the keys of NoObject.
NoObject == [serialNumber |-> "", name |-> ""]
Scalar(x) == [t |-> "s", s |-> x, l |-> <<>>, d |-> NoObject]
List(q) == [t |-> "l", s |-> "", l |-> q, d |-> NoObject]
Object(o) == [t |-> "d", s |-> "", l |-> <<>>, d |-> o]

\* Nothing has been logged: of the last response the operation, its body, a
\* second body to compare it with, and the log lines of each.
NoLogged ==
    [state |-> "none", op |-> "none",
     body |-> [serialNumber |-> Scalar(""), name |-> Scalar("")],
     twin |-> [serialNumber |-> Scalar(""), name |-> Scalar("")],
     out |-> <<>>, twinOut |-> <<>>]

\* No poll cycle has run.
NoCycle ==
    [state |-> "none", at |-> 0, r |-> NoReset, gate |-> NoTime, refused |-> FALSE,
     asked |-> FALSE, other |-> FALSE]

\* The coordinator's schedule before the first refresh: the number of poll
\* cycles run; of the last cycle how it ended, when, the retry_after of its
\* RateLimitError, the gate it left, whether the gate refused it, whether
\* another caller made a request since and whether that request was sent
\* and rate limited; the same of the cycle
\* before it; the time the next cycle is due.
NoSched == [cycles |-> 0, last |-> NoCycle, prev |-> NoCycle, next |-> 0]

\* Nothing built on the client is in use.
HostIdle ==
    /\ listing = NoListing /\ coord = NoCoord /\ hass = NoHass /\ flow = NoFlow
    /\ logged = NoLogged /\ sched = NoSched

\* What the store may hold when the client is constructed: nothing, or a token
\* pair saved by an earlier run (expired, inside the window, just outside it,
\* or long-lived).
InitExpiries == {Iso(0), Iso(PREEMPTIVE_REFRESH_TTL_IN_SECONDS),
                 Iso(PREEMPTIVE_REFRESH_TTL_IN_SECONDS + 1), Iso(FarFuture)}

InitStores ==
    {NoPrefs} \cup
    {[set |-> TRUE, access_token |-> 1, access_expire_time |-> a,
      refresh_token |-> 3, refresh_expire_time |-> r] :
        a \in InitExpiries, r \in InitExpiries}

\* MontaApiClient.__init__
Init ==
    /\ now = 0
    /\ prefs = NoPrefs
    /\ store \in InitStores
    /\ lock = NoCaller
    /\ waiters = <<>>
    /\ rate_limited_until = NoTime
    /\ pc = [c \in Callers |-> "idle"]
    /\ op = [c \in Callers |-> "none"]
    /\ req = [c \in Callers |-> NoReq]
    /\ attempt = [c \in Callers |-> 0]
    /\ wake = [c \in Callers |-> 0]
    /\ resp = [c \in Callers |-> NoResp]
    /\ ret = [c \in Callers |-> NoRet]
    /\ hist = [c \in Callers |-> NoHist]
    /\ HostIdle

\* ------------------------------------------------------------ _api_wrapper
\* A variant of the gate check that never lets a gate expire.
MutGateCheckSticky(g, t) == [blocked |-> g # NoTime, gate |-> g]

\* A variant of the gate check that refuses nothing.
MutGateCheckOpen(g, t) == [blocked |-> FALSE, gate |-> g]

\* The gate check at the head of _api_wrapper: whether the call is refused,
\* and the gate it leaves (an expired gate is cleared).
GateCheck(g, t) ==
    [blocked |-> g # NoTime /\ t < g,
     gate |-> IF g # NoTime /\ ~(t < g) THEN NoTime ELSE g]

\* A caller's _api_wrapper(path) call up to its first suspension: refused by
\* the gate, or its first request sent.
Begin(path, h, g, t) ==
    LET chk == GateCheck(g, t)
    IN  [blocked |-> chk.blocked,
         gate |-> chk.gate,
         ret |-> IF chk.blocked THEN RateLimitError(Max(g - t, 1), g) ELSE NoRet,
         hist |-> [h EXCEPT !.calls[path] = @ + 1,
                            !.http[path] = IF chk.blocked THEN @ ELSE @ + 1,
                            !.sentWhileBlocked =
                                @ \/ (~chk.blocked /\ g # NoTime /\ t < g)]]

\* A variant of the lock that excludes nobody.
MutLockFreeAlways(l) == TRUE

\* async with self._get_token_lock: whether the lock, held by l, can be taken.
LockFree(l) == l = NoCaller

\* Variants of the branch: one that never refreshes; one that refreshes with
\* any refresh token it holds, expired or not.
MutRouteNeverRefresh(p, t) ==
    IF _is_access_token_valid(p, t) THEN "reuse" ELSE "authenticate"

MutRouteRefreshIfHeld(p, t) ==
    IF _is_access_token_valid(p, t) THEN "reuse"
    ELSE IF p.refresh_token # NoToken THEN "refresh"
    ELSE "authenticate"

\* The branch of async_get_access_token on token state p at time t.
Route(p, t) ==
    IF _is_access_token_valid(p, t) THEN "reuse"
    ELSE IF _is_refresh_token_valid(p, t) THEN "refresh"
    ELSE "authenticate"

LockedOps == {"get_access_token", "domain"}
DirectOps == {"authenticate", "request_token"}

\* ------------------------------------------------------------------ actions
\* A caller starts get_access_token(), or a domain operation (which starts
\* with get_access_token()), and queues on the lock.
Invoke(c, O) ==
    \E o \in O \cap LockedOps :
        /\ pc[c] = "idle"
        /\ pc' = [pc EXCEPT ![c] = "wait_lock"]
        /\ op' = [op EXCEPT ![c] = o]
        /\ waiters' = Append(waiters, c)
        /\ hist' = [hist EXCEPT ![c].before =
                        [prefs |-> async_load_preferences(prefs, store), store |-> store]]
        /\ UNCHANGED <<now, prefs, store, lock, rate_limited_until, req, attempt,
                       wake, resp, ret>>

\* A caller calls authenticate() or request_token() itself: neither takes the
\* lock; both start with _api_wrapper("auth/token").
InvokeDirect(c, O) ==
    \E o \in O \cap DirectOps :
        LET h0 == [NoHist EXCEPT !.before =
                      [prefs |-> async_load_preferences(prefs, store), store |-> store]]
            b == Begin("auth/token", h0, rate_limited_until, now)
        IN  /\ pc[c] = "idle"
            /\ pc' = [pc EXCEPT ![c] = IF b.blocked THEN "done" ELSE "inflight"]
            /\ op' = [op EXCEPT ![c] = o]
            /\ req' = [req EXCEPT ![c] = [path |-> "auth/token", tok |-> NoToken]]
            /\ ret' = [ret EXCEPT ![c] = b.ret]
            /\ hist' = [hist EXCEPT ![c] = b.hist]
            /\ rate_limited_until' = b.gate
            /\ UNCHANGED <<now, prefs, store, lock, waiters, attempt, wake, resp>>

\* The first waiter takes the free lock and runs async_get_access_token up to
\* its return (reuse) or to the request it sends (refresh, authenticate).  A
\* domain operation that got the cached token goes on to its own request.
Enter(c) ==
    /\ pc[c] = "wait_lock"
    /\ LockFree(lock)
    /\ waiters # <<>>
    /\ Head(waiters) = c
    /\ LET p == async_load_preferences(prefs, store)
           route == Route(p, now)
           h0 == [hist[c] EXCEPT !.route = route]
           path == IF route = "reuse" THEN "api"
                   ELSE IF route = "refresh" THEN "auth/refresh" ELSE "auth/token"
           tok == IF route = "reuse" THEN p.access_token
                  ELSE IF route = "refresh" THEN p.refresh_token ELSE NoToken
           b == Begin(path, h0, rate_limited_until, now)
       IN  /\ prefs' = p
           /\ waiters' = Tail(waiters)
           /\ IF route = "reuse" /\ op[c] = "get_access_token"
              THEN /\ pc' = [pc EXCEPT ![c] = "done"]
                   /\ ret' = [ret EXCEPT ![c] = Returned(p.access_token)]
                   /\ hist' = [hist EXCEPT ![c] = h0]
                   /\ UNCHANGED <<lock, rate_limited_until, req>>
              ELSE /\ pc' = [pc EXCEPT ![c] = IF b.blocked THEN "done" ELSE "inflight"]
                   /\ ret' = [ret EXCEPT ![c] = b.ret]
                   /\ hist' = [hist EXCEPT ![c] = b.hist]
                   /\ rate_limited_until' = b.gate
                   /\ req' = [req EXCEPT ![c] = [path |-> path, tok |-> tok]]
                   /\ lock' = IF ~b.blocked /\ path \in TokenPaths THEN c ELSE NoCaller
    /\ UNCHANGED <<now, store, op, attempt, wake, resp>>

\* A variant of the failure in which a domain operation whose token step
\* failed sends its REST call all the same, without a token.
MutFailGoesOn(c, r, e) ==
    /\ resp' = [resp EXCEPT ![c] = r]
    /\ lock' = IF lock = c THEN NoCaller ELSE lock
    /\ IF op[c] = "domain" /\ req[c].path \in TokenPaths
       THEN /\ req' = [req EXCEPT ![c] = [path |-> "api", tok |-> NoToken]]
            /\ hist' = [hist EXCEPT ![c].calls["api"] = 1, ![c].http["api"] = 1]
            /\ attempt' = [attempt EXCEPT ![c] = 0]
            /\ UNCHANGED <<pc, ret>>
       ELSE /\ pc' = [pc EXCEPT ![c] = "done"]
            /\ ret' = [ret EXCEPT ![c] = e]
            /\ UNCHANGED <<req, hist, attempt>>
    /\ UNCHANGED <<now, prefs, store, waiters, op, wake>>

\* A variant of the failure that removes what the store holds.
MutFailRemovesStore(c, r, e) ==
    /\ pc' = [pc EXCEPT ![c] = "done"]
    /\ resp' = [resp EXCEPT ![c] = r]
    /\ ret' = [ret EXCEPT ![c] = e]
    /\ lock' = IF lock = c THEN NoCaller ELSE lock
    /\ store' = NoPrefs
    /\ UNCHANGED <<now, prefs, waiters, op, req, attempt, wake, hist>>

\* A variant of the failure that drops the tokens held in memory.
MutFailForgetsTokens(c, r, e) ==
    /\ pc' = [pc EXCEPT ![c] = "done"]
    /\ resp' = [resp EXCEPT ![c] = r]
    /\ ret' = [ret EXCEPT ![c] = e]
    /\ lock' = IF lock = c THEN NoCaller ELSE lock
    /\ prefs' = EmptyPrefs
    /\ UNCHANGED <<now, store, waiters, op, req, attempt, wake, hist>>

\* A variant of the failure that leaves the lock with the caller.
MutFailKeepsLock(c, r, e) ==
    /\ pc' = [pc EXCEPT ![c] = "done"]
    /\ resp' = [resp EXCEPT ![c] = r]
    /\ ret' = [ret EXCEPT ![c] = e]
    /\ UNCHANGED <<now, prefs, store, lock, waiters, op, req, attempt, wake, hist>>

\* The caller's operation ends with exception e; async with releases the lock.
Fail(c, r, e) ==
    /\ pc' = [pc EXCEPT ![c] = "done"]
    /\ resp' = [resp EXCEPT ![c] = r]
    /\ ret' = [ret EXCEPT ![c] = e]
    /\ lock' = IF lock = c THEN NoCaller ELSE lock
    /\ UNCHANGED <<now, prefs, store, waiters, op, req, attempt, wake, hist>>

\* The request times out or fails in transport (asyncio.TimeoutError,
\* aiohttp.ClientError, socket.gaierror).
RespondTransportError(c) ==
    /\ pc[c] = "inflight"
    /\ Fail(c, [NoResp EXCEPT !.kind = "transport_error"], Raised("CommunicationError"))
    /\ UNCHANGED rate_limited_until

\* HTTP 401 or 403.
RespondUnauthorized(c) ==
    \E s \in {401, 403} :
        /\ pc[c] = "inflight"
        /\ Fail(c, [NoResp EXCEPT !.kind = "http", !.status = s],
                Raised("AuthenticationError"))
        /\ UNCHANGED rate_limited_until

\* A variant that closes the gate for a second on any rejected status.
MutServerErrorClosesGate(c) ==
    /\ pc[c] = "inflight"
    /\ Fail(c, [NoResp EXCEPT !.kind = "http", !.status = 500],
            Raised("CommunicationError"))
    /\ rate_limited_until' = now + 1

\* Any other status raise_for_status() rejects (aiohttp.ClientResponseError).
RespondServerError(c) ==
    /\ pc[c] = "inflight"
    /\ Fail(c, [NoResp EXCEPT !.kind = "http", !.status = 500],
            Raised("CommunicationError"))
    /\ UNCHANGED rate_limited_until

\* A 2xx response whose body is no JSON (response.json() raises, line 388,
\* before the gate is cleared), or a 429 whose resetsIn is no number
\* (int() raises, line 350, before the gate is set): the last except clause
\* of _api_wrapper wraps the exception into the base client error.
RespondMalformed(c) ==
    \E s \in {200, 429} :
        /\ pc[c] = "inflight"
        /\ Fail(c, [NoResp EXCEPT !.kind = "http", !.status = s, !.body = "malformed"],
                Raised("Error"))
        /\ UNCHANGED rate_limited_until

\* A 2xx response of a token endpoint whose JSON body has no accessToken key.
\* _api_wrapper returns it (the gate is cleared); request_token() hands it
\* out; authenticate() and get_access_token() evaluate
\* response_json["accessToken"] (lines 119, 249) outside _api_wrapper, before
\* anything is stored, and the KeyError leaves the operation as it is.
RespondIncomplete(c) ==
    /\ pc[c] = "inflight"
    /\ req[c].path \in TokenPaths
    /\ Fail(c, [NoResp EXCEPT !.kind = "http", !.status = 200, !.body = "incomplete"],
            IF op[c] = "request_token" THEN Returned(NoToken) ELSE Raised("KeyError"))
    /\ rate_limited_until' = NoTime

\* A variant that closes the gate for a second when the 429 names no resetsIn.
MutGateAfter429Default(g, r, t) == IF r # NoReset THEN t + r ELSE t + 1

\* The gate after a 429 whose body names resetsIn = r (NoReset: none) at time t.
GateAfter429(g, r, t) == IF r # NoReset THEN t + r ELSE g

\* A variant that retries whatever pause the 429 names.
MutShortRetryAnyPause(r, a) == r # NoReset /\ a < max_short_retries

\* A variant that retries only below the threshold.
MutShortRetryBelow(r, a) ==
    r # NoReset /\ r < SHORT_RETRY_THRESHOLD_SECONDS /\ a < max_short_retries

\* A variant that retries whatever the number of retries made.
MutShortRetryNoBudget(r, a) == r # NoReset /\ r <= SHORT_RETRY_THRESHOLD_SECONDS

\* Whether _api_wrapper retries a 429 in place.
ShortRetry(r, a) ==
    r # NoReset /\ r <= SHORT_RETRY_THRESHOLD_SECONDS /\ a < max_short_retries

\* HTTP 429: set the gate, then sleep and retry, or raise.
RespondRateLimited(c, R) ==
    \E r \in R, q \in Remaining :
        LET g == GateAfter429(rate_limited_until, r, now)
            rs == [NoResp EXCEPT !.kind = "http", !.status = 429, !.resetsIn = r,
                                 !.remaining = q]
        IN  /\ pc[c] = "inflight"
            /\ rate_limited_until' = g
            /\ IF ShortRetry(r, attempt[c])
               THEN /\ pc' = [pc EXCEPT ![c] = "sleeping"]
                    /\ wake' = [wake EXCEPT ![c] = now + Max(1, r)]
                    /\ resp' = [resp EXCEPT ![c] = rs]
                    /\ UNCHANGED <<now, prefs, store, lock, waiters, op, req,
                                   attempt, ret, hist>>
               ELSE Fail(c, rs, [RateLimitError(r, IF r # NoReset THEN now + r ELSE NoTime)
                                    EXCEPT !.remaining = q])

\* asyncio.sleep(sleep_for) is over (it lasts max(1, resetsIn) seconds plus a
\* jitter): the same request is sent again, without a gate check.
Wake(c) ==
    /\ pc[c] = "sleeping"
    /\ now >= wake[c]
    /\ pc' = [pc EXCEPT ![c] = "inflight"]
    /\ attempt' = [attempt EXCEPT ![c] = @ + 1]
    /\ hist' = [hist EXCEPT ![c].http[req[c].path] = @ + 1,
                            ![c].sentWhileBlocked =
                                @ \/ (rate_limited_until # NoTime /\ now < rate_limited_until)]
    /\ UNCHANGED <<now, prefs, store, lock, waiters, rate_limited_until, op, req,
                   wake, resp, ret>>

\* A variant in which request_token() stores the response as authenticate() does.
MutStoresResponseAlways(o, path) == path \in TokenPaths

\* Operation o stores the token response of its request to path: authenticate()
\* and get_access_token() (and so the domain operations) do, request_token()
\* returns it as it is.
StoresResponse(o, path) == path \in TokenPaths /\ o # "request_token"

\* A variant in which get_access_token() looks at the validity of the token
\* it has just stored and authenticates again when it is not valid.
MutRespondSuccessRechecks(c, P) ==
    \E pl \in P :
        LET isToken == req[c].path \in TokenPaths
            p == async_load_preferences(prefs, store)
            rs == IF isToken
                  THEN [NoResp EXCEPT !.kind = "http", !.status = 200,
                                      !.tok = FreshToken(p),
                                      !.rtok = FreshRefreshToken(p),
                                      !.ae = pl[1], !.re = pl[2]]
                  ELSE [NoResp EXCEPT !.kind = "http", !.status = 200]
            stores == StoresResponse(op[c], req[c].path)
            p1 == _async_update_preferences(p, rs.tok, parse_datetime(rs.ae),
                                            rs.rtok, parse_datetime(rs.re))
            again == isToken /\ op[c] = "get_access_token"
                        /\ ~_is_access_token_valid(p1, now)
        IN  /\ pc[c] = "inflight"
            /\ isToken \/ pl = CHOOSE x \in P : TRUE
            /\ resp' = [resp EXCEPT ![c] = rs]
            /\ prefs' = IF stores THEN p1 ELSE prefs
            /\ store' = IF stores THEN async_save(store, p1) ELSE store
            /\ lock' = IF lock = c /\ ~again THEN NoCaller ELSE lock
            /\ rate_limited_until' = NoTime
            /\ IF again
               THEN /\ req' = [req EXCEPT ![c] = [path |-> "auth/token", tok |-> NoToken]]
                    /\ attempt' = [attempt EXCEPT ![c] = 0]
                    /\ hist' = [hist EXCEPT ![c].calls["auth/token"] = @ + 1,
                                            ![c].http["auth/token"] = @ + 1]
                    /\ UNCHANGED <<pc, ret>>
               ELSE IF isToken /\ op[c] = "domain"
               THEN /\ req' = [req EXCEPT ![c] = [path |-> "api", tok |-> rs.tok]]
                    /\ attempt' = [attempt EXCEPT ![c] = 0]
                    /\ hist' = [hist EXCEPT ![c] = Begin("api", hist[c], NoTime, now).hist]
                    /\ UNCHANGED <<pc, ret>>
               ELSE /\ pc' = [pc EXCEPT ![c] = "done"]
                    /\ ret' = [ret EXCEPT ![c] = Returned(rs.tok)]
                    /\ UNCHANGED <<req, attempt, hist>>
            /\ UNCHANGED <<now, waiters, op, wake>>

\* A 2xx response: the gate is cleared and the JSON body returned to the
\* operation, which stores a token response (authenticate, get_access_token),
\* hands it out (request_token) or, for a domain operation that just got its
\* token, goes on to its own request.  P: the (access, refresh) expiration
\* dates a token response may carry.
RespondSuccess(c, P) ==
    \E pl \in P :
        LET ae == pl[1]
            re == pl[2]
            isToken == req[c].path \in TokenPaths
            p == async_load_preferences(prefs, store)
            rs == IF isToken
                  THEN [NoResp EXCEPT !.kind = "http", !.status = 200,
                                      !.tok = FreshToken(p),
                                      !.rtok = FreshRefreshToken(p),
                                      !.ae = ae, !.re = re]
                  ELSE [NoResp EXCEPT !.kind = "http", !.status = 200]
            stores == StoresResponse(op[c], req[c].path)
            p1 == _async_update_preferences(p, rs.tok, parse_datetime(rs.ae),
                                            rs.rtok, parse_datetime(rs.re))
            b == Begin("api", hist[c], NoTime, now)
        IN  /\ pc[c] = "inflight"
            /\ isToken \/ pl = CHOOSE x \in P : TRUE
            /\ resp' = [resp EXCEPT ![c] = rs]
            /\ prefs' = IF stores THEN p1 ELSE prefs
            /\ store' = IF stores THEN async_save(store, p1) ELSE store
            /\ lock' = IF lock = c THEN NoCaller ELSE lock
            /\ rate_limited_until' = NoTime
            /\ IF isToken /\ op[c] = "domain"
               THEN /\ req' = [req EXCEPT ![c] = [path |-> "api", tok |-> rs.tok]]
                    /\ attempt' = [attempt EXCEPT ![c] = 0]
                    /\ hist' = [hist EXCEPT ![c] = b.hist]
                    /\ UNCHANGED <<pc, ret>>
               ELSE /\ pc' = [pc EXCEPT ![c] = "done"]
                    /\ ret' = [ret EXCEPT ![c] = Returned(rs.tok)]
                    /\ UNCHANGED <<req, attempt, hist>>
            /\ UNCHANGED <<now, waiters, op, wake>>

\* The operation's result (or exception) is back with the caller, in the same
\* run of the event loop in which the operation ended.
Return(c) ==
    /\ pc[c] = "done"
    /\ pc' = [pc EXCEPT ![c] = "idle"]
    /\ op' = [op EXCEPT ![c] = "none"]
    /\ req' = [req EXCEPT ![c] = NoReq]
    /\ attempt' = [attempt EXCEPT ![c] = 0]
    /\ wake' = [wake EXCEPT ![c] = 0]
    /\ resp' = [resp EXCEPT ![c] = NoResp]
    /\ ret' = [ret EXCEPT ![c] = NoRet]
    /\ hist' = [hist EXCEPT ![c] = NoHist]
    /\ UNCHANGED <<now, prefs, store, lock, waiters, rate_limited_until>>

\* A second passes.
Tick ==
    /\ now < MaxNow
    /\ now' = now + 1
    /\ UNCHANGED <<prefs, store, lock, waiters, rate_limited_until, pc, op, req,
                   attempt, wake, resp, ret, hist>>

\* No operation has just ended: an ended operation's caller takes the result
\* before any other coroutine runs.
Quiet == \A c \in Callers : pc[c] # "done"

Ops == LockedOps \cup DirectOps

\* One caller, every operation, every answer of the server, every stored state.
Solo == {"c1"}

Next ==
    \/ \E c \in Solo : Return(c) /\ UNCHANGED hostVars
    \/ \E c \in Solo : Quiet /\ Invoke(c, Ops) /\ UNCHANGED hostVars
    \/ \E c \in Solo : Quiet /\ InvokeDirect(c, Ops) /\ UNCHANGED hostVars
    \/ \E c \in Solo : Quiet /\ Enter(c) /\ UNCHANGED hostVars
    \/ \E c \in Solo : Quiet /\ RespondTransportError(c) /\ UNCHANGED hostVars
    \/ \E c \in Solo : Quiet /\ RespondUnauthorized(c) /\ UNCHANGED hostVars
    \/ \E c \in Solo : Quiet /\ RespondServerError(c) /\ UNCHANGED hostVars
    \/ \E c \in Solo : Quiet /\ RespondMalformed(c) /\ UNCHANGED hostVars
    \/ \E c \in Solo : Quiet /\ RespondIncomplete(c) /\ UNCHANGED hostVars
    \/ \E c \in Solo : Quiet /\ RespondRateLimited(c, ResetsIn) /\ UNCHANGED hostVars
    \/ \E c \in Solo : Quiet /\ RespondSuccess(c, PayloadExpiries \X PayloadExpiries) /\ UNCHANGED hostVars
    \/ \E c \in Solo : Quiet /\ Wake(c) /\ UNCHANGED hostVars
    \/ Quiet /\ Tick /\ UNCHANGED hostVars

Spec == Init /\ [][Next]_vars

\* Two callers at once, on a client constructed over an empty store (as
\* async_setup_entry leaves it), with a server whose tokens are long-lived and
\* whose 429s name a short or a long pause.
Pair == {"c1", "c2"}
PairPayloads == {<<Iso(FarFuture), Iso(FarFuture)>>}
PairResetsIn == {1, 3}

InitPair == Init /\ store = NoPrefs

NextPair ==
    \/ \E c \in Pair : Return(c) /\ UNCHANGED hostVars
    \/ \E c \in Pair : Quiet /\ Invoke(c, Ops) /\ UNCHANGED hostVars
    \/ \E c \in Pair : Quiet /\ InvokeDirect(c, Ops) /\ UNCHANGED hostVars
    \/ \E c \in Pair : Quiet /\ Enter(c) /\ UNCHANGED hostVars
    \/ \E c \in Pair : Quiet /\ RespondTransportError(c) /\ UNCHANGED hostVars
    \/ \E c \in Pair : Quiet /\ RespondUnauthorized(c) /\ UNCHANGED hostVars
    \/ \E c \in Pair : Quiet /\ RespondServerError(c) /\ UNCHANGED hostVars
    \/ \E c \in Pair : Quiet /\ RespondMalformed(c) /\ UNCHANGED hostVars
    \/ \E c \in Pair : Quiet /\ RespondIncomplete(c) /\ UNCHANGED hostVars
    \/ \E c \in Pair : Quiet /\ RespondRateLimited(c, PairResetsIn) /\ UNCHANGED hostVars
    \/ \E c \in Pair : Quiet /\ RespondSuccess(c, PairPayloads) /\ UNCHANGED hostVars
    \/ \E c \in Pair : Quiet /\ Wake(c) /\ UNCHANGED hostVars
    \/ Quiet /\ Tick /\ UNCHANGED hostVars

SpecPair == InitPair /\ [][NextPair]_vars

\* Two pollers at once, each running domain operations and get_access_token()
\* (the operations the integration runs on its shared client), against the
\* same store and server as the pair above, with every resetsIn.
NextPollers ==
    \/ \E c \in Pair : Return(c) /\ UNCHANGED hostVars
    \/ \E c \in Pair : Quiet /\ Invoke(c, LockedOps) /\ UNCHANGED hostVars
    \/ \E c \in Pair : Quiet /\ Enter(c) /\ UNCHANGED hostVars
    \/ \E c \in Pair : Quiet /\ RespondTransportError(c) /\ UNCHANGED hostVars
    \/ \E c \in Pair : Quiet /\ RespondUnauthorized(c) /\ UNCHANGED hostVars
    \/ \E c \in Pair : Quiet /\ RespondServerError(c) /\ UNCHANGED hostVars
    \/ \E c \in Pair : Quiet /\ RespondMalformed(c) /\ UNCHANGED hostVars
    \/ \E c \in Pair : Quiet /\ RespondIncomplete(c) /\ UNCHANGED hostVars
    \/ \E c \in Pair : Quiet /\ RespondRateLimited(c, ResetsIn) /\ UNCHANGED hostVars
    \/ \E c \in Pair : Quiet /\ RespondSuccess(c, PairPayloads) /\ UNCHANGED hostVars
    \/ \E c \in Pair : Quiet /\ Wake(c) /\ UNCHANGED hostVars
    \/ Quiet /\ Tick /\ UNCHANGED hostVars

SpecPollers == InitPair /\ [][NextPollers]_vars

\* A stampede: every caller has called get_access_token() at the same moment
\* on a client whose stored tokens (if any) are both no longer usable; each
\* makes that one call.
Stale(tok, exp, t) ==
    tok = NoToken \/ exp.k = "none" \/ exp.t - t <= PREEMPTIVE_REFRESH_TTL_IN_SECONDS

InitStampede ==
    /\ now = 0
    /\ prefs = NoPrefs
    /\ store \in {st \in InitStores :
                    /\ Stale(st.access_token, st.access_expire_time, 0)
                    /\ Stale(st.refresh_token, st.refresh_expire_time, 0)}
    /\ lock = NoCaller
    /\ waiters = <<"c1", "c2", "c3">>
    /\ rate_limited_until = NoTime
    /\ pc = [c \in Callers |-> "wait_lock"]
    /\ op = [c \in Callers |-> "get_access_token"]
    /\ req = [c \in Callers |-> NoReq]
    /\ attempt = [c \in Callers |-> 0]
    /\ wake = [c \in Callers |-> 0]
    /\ resp = [c \in Callers |-> NoResp]
    /\ ret = [c \in Callers |-> NoRet]
    /\ hist = [c \in Callers |-> NoHist]
    /\ HostIdle

NextStampede ==
    \/ \E c \in Callers : Enter(c) /\ UNCHANGED hostVars
    \/ \E c \in Callers : RespondTransportError(c) /\ UNCHANGED hostVars
    \/ \E c \in Callers : RespondUnauthorized(c) /\ UNCHANGED hostVars
    \/ \E c \in Callers : RespondServerError(c) /\ UNCHANGED hostVars
    \/ \E c \in Callers : RespondMalformed(c) /\ UNCHANGED hostVars
    \/ \E c \in Callers : RespondIncomplete(c) /\ UNCHANGED hostVars
    \/ \E c \in Callers : RespondRateLimited(c, ResetsIn) /\ UNCHANGED hostVars
    \/ \E c \in Callers : RespondSuccess(c, PayloadExpiries \X PayloadExpiries) /\ UNCHANGED hostVars
    \/ \E c \in Callers : Wake(c) /\ UNCHANGED hostVars
    \/ Tick /\ UNCHANGED hostVars

SpecStampede == InitStampede /\ [][NextStampede]_vars

\* ------------------------------------------------------------- properties
\* The token state a call finds: self._prefs, or what loading would give.
TokenState == IF prefs.set THEN prefs ELSE IF store.set THEN store ELSE EmptyPrefs

\* A token is usable: present, with an expiry more than the preemptive window
\* after t.  At(tok, exp, d, t): present and expiring exactly d seconds after t.
Usable(tok, exp, t) ==
    tok # NoToken /\ exp.k # "none" /\ exp.t - t > PREEMPTIVE_REFRESH_TTL_IN_SECONDS

At(tok, exp, d, t) == tok # NoToken /\ exp.k # "none" /\ exp.t - t = d

AccessUsable == Usable(TokenState.access_token, TokenState.access_expire_time, now)
RefreshUsable == Usable(TokenState.refresh_token, TokenState.refresh_expire_time, now)

Zero == [x \in Paths |-> 0]
One(path) == [Zero EXCEPT ![path] = 1]

\* In this step caller c gets the lock and runs get_access_token to its first
\* suspension or its return; in this step c's request in flight is answered.
Passes(c) == pc[c] = "wait_lock" /\ pc'[c] # "wait_lock"
Answered(c) == pc[c] = "inflight" /\ (pc'[c] # "inflight" \/ req'[c] # req[c])

\* A 2xx token response whose two expiration dates are ISO texts.
WellFormed(r) == r.status = 200 /\ r.tok # NoToken /\ r.ae.k = "str" /\ r.re.k = "str"

\* The token state that holds exactly the pair of token response r.
PairOf(r) ==
    [set |-> TRUE, access_token |-> r.tok, access_expire_time |-> Dt(r.ae.t),
     refresh_token |-> r.rtok, refresh_expire_time |-> Dt(r.re.t)]

\* C3: a get_access_token() call that finds an access token whose expiry is
\* strictly more than 300 seconds away returns that token, makes no
\* _api_wrapper call and sends no request, and leaves token state and storage
\* as they were; a token expiring exactly 300 seconds away is not reused.
C3_FastPath ==
    [][\A c \in Callers :
        (Passes(c) /\ op[c] = "get_access_token") =>
            /\ AccessUsable =>
                /\ pc'[c] = "done"
                /\ ret'[c] = Returned(TokenState.access_token)
                /\ hist'[c].calls = Zero
                /\ hist'[c].http = Zero
                /\ TokenState' = TokenState
                /\ store' = store
            /\ At(TokenState.access_token, TokenState.access_expire_time,
                  PREEMPTIVE_REFRESH_TTL_IN_SECONDS, now) =>
                /\ hist'[c].calls # Zero
                /\ ret'[c].kind # "ok"]_vars

C3_Witness ==
    \E c \in Callers :
        /\ pc[c] = "done"
        /\ op[c] = "get_access_token"
        /\ hist[c].route = "reuse"
        /\ hist[c].http = Zero
        /\ ret[c] = Returned(prefs.access_token)
        /\ Usable(prefs.access_token, prefs.access_expire_time, now)
        /\ now > 0

\* C4: a get_access_token() call that finds no usable access token but a
\* usable refresh token makes exactly one _api_wrapper call, POST auth/refresh
\* with the stored refresh token, and none to auth/token; when that call is
\* answered with a well-formed token response, the token state becomes exactly
\* the response's pair (both tokens, both expiries), is saved, and the call
\* returns the response's access token, which is not the cached one.
C4_RefreshPath ==
    [][\A c \in Callers :
        /\ (Passes(c) /\ op[c] \in LockedOps /\ ~AccessUsable /\ RefreshUsable) =>
            /\ hist'[c].calls = One("auth/refresh")
            /\ pc'[c] = "inflight" =>
                /\ req'[c] = [path |-> "auth/refresh", tok |-> TokenState.refresh_token]
                /\ hist'[c].http = One("auth/refresh")
            /\ pc'[c] # "inflight" =>
                /\ ret'[c].kind = "RateLimitError"
                /\ hist'[c].http = Zero
        /\ (Answered(c) /\ req[c].path = "auth/refresh" /\ WellFormed(resp'[c])) =>
            /\ prefs' = PairOf(resp'[c])
            /\ store' = ToJson(prefs')
            /\ resp'[c].tok # TokenState.access_token
            /\ hist'[c].calls["auth/token"] = 0
            /\ hist'[c].calls["auth/refresh"] = 1
            /\ op[c] = "get_access_token" =>
                pc'[c] = "done" /\ ret'[c] = Returned(resp'[c].tok)
            /\ op[c] = "domain" =>
                req'[c] = [path |-> "api", tok |-> resp'[c].tok]]_vars

C4_Witness ==
    \E c \in Callers :
        /\ pc[c] = "done"
        /\ op[c] = "get_access_token"
        /\ hist[c].route = "refresh"
        /\ hist[c].calls = One("auth/refresh")
        /\ WellFormed(resp[c])
        /\ ret[c] = Returned(resp[c].tok)
        /\ prefs = PairOf(resp[c])
        /\ store = ToJson(prefs)

\* C5: a get_access_token() call that finds neither a usable access token nor
\* a usable refresh token (an expired one included) makes exactly one
\* _api_wrapper call, POST auth/token, and none to auth/refresh; when that call
\* is answered with a well-formed token response, the token state becomes
\* exactly the response's pair, is saved, and the call returns the response's
\* access token instead of raising.
C5_AuthenticatePath ==
    [][\A c \in Callers :
        /\ (Passes(c) /\ op[c] \in LockedOps /\ ~AccessUsable /\ ~RefreshUsable) =>
            /\ hist'[c].calls = One("auth/token")
            /\ pc'[c] = "inflight" =>
                /\ req'[c] = [path |-> "auth/token", tok |-> NoToken]
                /\ hist'[c].http = One("auth/token")
            /\ pc'[c] # "inflight" =>
                /\ ret'[c].kind = "RateLimitError"
                /\ hist'[c].http = Zero
        /\ (Answered(c) /\ req[c].path = "auth/token" /\ op[c] \in LockedOps
                /\ WellFormed(resp'[c])) =>
            /\ prefs' = PairOf(resp'[c])
            /\ store' = ToJson(prefs')
            /\ hist'[c].calls["auth/token"] = 1
            /\ hist'[c].calls["auth/refresh"] = 0
            /\ op[c] = "get_access_token" =>
                pc'[c] = "done" /\ ret'[c] = Returned(resp'[c].tok)
            /\ op[c] = "domain" =>
                req'[c] = [path |-> "api", tok |-> resp'[c].tok]]_vars

\* The call replaced a pair it held (tokens 1 and 3, the refresh token
\* expired) by authenticating.
C5_Witness ==
    \E c \in Callers :
        /\ pc[c] = "done"
        /\ op[c] = "get_access_token"
        /\ hist[c].route = "authenticate"
        /\ hist[c].calls = One("auth/token")
        /\ WellFormed(resp[c])
        /\ ret[c] = Returned(2)
        /\ prefs = PairOf(resp[c])
        /\ prefs.refresh_token = 4
        /\ store = ToJson(prefs)

\* get_access_token() has just returned a token to caller c.
GotToken(c) == pc[c] = "done" /\ op[c] = "get_access_token" /\ ret[c].kind = "ok"

\* C6 as stated: whenever get_access_token() returns a token, the token is the
\* stored access token and its stored expiry is more than 300 seconds after now.
C6_ReturnedTokenUsable ==
    \A c \in Callers :
        GotToken(c) =>
            /\ ret[c].val = prefs.access_token
            /\ Usable(prefs.access_token, prefs.access_expire_time, now)

\* C6, amended: a token returned from the reuse path has a stored expiry more
\* than 300 seconds after now; a token returned from the refresh or the
\* authenticate path is the one of the response just stored, handed out
\* without a look at its expiry, so it is that far from expiring exactly when
\* the response's expiration date (if it is a date) is.
C6_ReturnedTokenUsableIfServerLifetimeAllows ==
    \A c \in Callers :
        GotToken(c) =>
            /\ ret[c].val = prefs.access_token
            /\ hist[c].route = "reuse" =>
                Usable(prefs.access_token, prefs.access_expire_time, now)
            /\ hist[c].route # "reuse" =>
                /\ ret[c].val = resp[c].tok
                /\ resp[c].ae.k = "str" =>
                    /\ prefs.access_expire_time = Dt(resp[c].ae.t)
                    /\ Usable(prefs.access_token, prefs.access_expire_time, now)
                           <=> resp[c].ae.t - now > PREEMPTIVE_REFRESH_TTL_IN_SECONDS

\* A token was returned whose expiry, as the server gave it, is inside the window.
C6_Witness ==
    \E c \in Callers :
        /\ GotToken(c)
        /\ hist[c].route \in {"refresh", "authenticate"}
        /\ resp[c].ae = Iso(PREEMPTIVE_REFRESH_TTL_IN_SECONDS)
        /\ ret[c].val = prefs.access_token
        /\ ~Usable(prefs.access_token, prefs.access_expire_time, now)

\* C7: in every token state a token is null exactly when its expiry is null,
\* for the access pair and for the refresh pair, and once a token response is
\* stored each stored expiry is the one that response delivered.
C7_TokenAndExpiryPaired ==
    /\ prefs.access_token = NoToken <=> prefs.access_expire_time.k = "none"
    /\ prefs.refresh_token = NoToken <=> prefs.refresh_expire_time.k = "none"
    /\ \A c \in Callers :
        (pc[c] = "done" /\ ret[c].kind = "ok" /\ resp[c].tok # NoToken
            /\ op[c] # "request_token") =>
            /\ prefs.access_token = resp[c].tok
            /\ isoformat(prefs.access_expire_time) = resp[c].ae
            /\ prefs.refresh_token = resp[c].rtok
            /\ isoformat(prefs.refresh_expire_time) = resp[c].re

\* In this step a token response to c is stored (authenticate, or the refresh
\* or authenticate branch of get_access_token).
StoresTokens(c) ==
    /\ Answered(c)
    /\ req[c].path \in TokenPaths
    /\ op[c] # "request_token"
    /\ resp'[c].status = 200
    /\ resp'[c].body = "json"

\* C8: the in-memory token state changes only when it is first loaded and when
\* a 2xx token or refresh response is stored; the storage changes only then;
\* and whenever a token response is stored the mapping the storage holds
\* afterwards is the in-memory token state.
C8_MutationsSaved ==
    [][/\ prefs' # prefs =>
            \/ ~prefs.set /\ prefs' = TokenState /\ store' = store
            \/ \E c \in Callers : StoresTokens(c)
       /\ store' # store => \E c \in Callers : StoresTokens(c)
       /\ \A c \in Callers :
            StoresTokens(c) =>
                /\ prefs'.set
                /\ prefs'.access_token = resp'[c].tok
                /\ store' = ToJson(prefs')]_vars

C8_Witness ==
    \E c \in Callers :
        /\ pc[c] = "done"
        /\ op[c] = "authenticate"
        /\ ret[c] = Returned(resp[c].tok)
        /\ prefs.access_token = resp[c].tok
        /\ prefs.refresh_token = resp[c].rtok
        /\ store = ToJson(prefs)
        /\ store.access_expire_time.k = "str"

Minting == {c \in Callers : pc[c] = "inflight" /\ req[c].path \in TokenPaths}

\* C2: request_token(), authenticate() and get_access_token() all go through
\* the lock, so that, however their callers interleave, at most one
\* token-minting request is in flight at any time.
C2_OneMintInFlight == Cardinality(Minting) <= 1

GateClosed == rate_limited_until # NoTime /\ now < rate_limited_until

\* C9 as stated: no request is ever sent while the gate is closed.
C9_NothingSentWhileGateClosed == \A c \in Callers : ~hist[c].sentWhileBlocked

\* C9, amended: an _api_wrapper call that begins while the gate is closed (a
\* call inside get_access_token included) sends nothing and fails with
\* RateLimitError carrying the gate and the seconds left to it; the only
\* request ever sent while the gate is closed is the in-place retry of an
\* earlier 429, which is sent when its sleep ends without a look at the gate.
C9_NewCallsRefusedWhileGateClosed ==
    [][\A c \in Callers :
        /\ (pc[c] \in {"idle", "wait_lock"} /\ hist'[c].calls # Zero /\ GateClosed) =>
            /\ pc'[c] = "done"
            /\ ret'[c] = RateLimitError(rate_limited_until - now, rate_limited_until)
            /\ hist'[c].http = Zero
            /\ rate_limited_until' = rate_limited_until
        /\ (hist'[c].sentWhileBlocked /\ ~hist[c].sentWhileBlocked) =>
            /\ pc[c] = "sleeping"
            /\ attempt'[c] > 0]_vars

\* One caller's retry is in flight, sent while the gate another caller's 429
\* closed was still closed, and that other caller's next call has been refused.
C9_Witness ==
    \E c, d \in Callers :
        /\ c # d
        /\ GateClosed
        /\ pc[c] = "inflight"
        /\ attempt[c] > 0
        /\ hist[c].sentWhileBlocked
        /\ pc[d] = "done"
        /\ hist[d].calls # Zero
        /\ hist[d].http = Zero
        /\ ret[d] = RateLimitError(rate_limited_until - now, rate_limited_until)

\* Every call of the stampede has ended, and the authentication that was
\* made succeeded and delivered a long-lived access token.
Authenticators == {c \in Callers : hist[c].calls["auth/token"] > 0}
Refreshers == {c \in Callers : hist[c].calls["auth/refresh"] > 0}

StampedeOver == \A c \in Callers : pc[c] = "done"

AuthenticationsSucceeded ==
    \A c \in Authenticators : ret[c].kind = "ok" /\ resp[c].ae = Iso(FarFuture)

BeginsCall(c) == pc[c] \in {"idle", "wait_lock"} /\ hist'[c].calls # Zero

GateExpired == rate_limited_until # NoTime /\ now >= rate_limited_until

\* C11 as stated: every 2xx response leaves the gate null, and an _api_wrapper
\* call that begins once the time has reached the gate clears it and sends
\* its request instead of failing with RateLimitError.
C11_Every2xxClearsGate ==
    [][\A c \in Callers :
        /\ (Answered(c) /\ resp'[c].status = 200) => rate_limited_until' = NoTime
        /\ (BeginsCall(c) /\ GateExpired) =>
            /\ rate_limited_until' = NoTime
            /\ pc'[c] = "inflight"
            /\ hist'[c].http = hist'[c].calls
            /\ ret'[c] = NoRet]_vars

\* C11, amended: every 2xx response whose body _api_wrapper could read as JSON
\* leaves the gate null (one whose body it could not read leaves the gate as
\* it is), and an _api_wrapper call that begins once the time has reached the
\* gate clears it and sends its request instead of failing with
\* RateLimitError.
C11_GateCleared ==
    [][\A c \in Callers :
        /\ (Answered(c) /\ resp'[c].status = 200 /\ resp'[c].body # "malformed") =>
                rate_limited_until' = NoTime
        /\ (Answered(c) /\ resp'[c].status = 200 /\ resp'[c].body = "malformed") =>
                rate_limited_until' = rate_limited_until
        /\ (BeginsCall(c) /\ GateExpired) =>
            /\ rate_limited_until' = NoTime
            /\ pc'[c] = "inflight"
            /\ hist'[c].http = hist'[c].calls
            /\ ret'[c] = NoRet]_vars

\* A call whose 429 closed the gate was retried in place and has succeeded:
\* the gate is null again.
C11_Witness ==
    \E c \in Callers :
        /\ pc[c] = "done"
        /\ attempt[c] > 0
        /\ resp[c].status = 200
        /\ ret[c].kind = "ok"
        /\ rate_limited_until = NoTime


\* In this step caller c receives a 429 whose body names a resetsIn of at
\* most 2 seconds (short) or of more (long).
Short429(c) ==
    /\ Answered(c)
    /\ resp'[c].status = 429
    /\ resp'[c].resetsIn # NoReset
    /\ resp'[c].resetsIn <= 2

Long429(c) ==
    /\ Answered(c)
    /\ resp'[c].status = 429
    /\ resp'[c].resetsIn # NoReset
    /\ resp'[c].resetsIn > 2

C13_Long429Raises ==
    [][\A c \in Callers :
        Long429(c) =>
            /\ pc'[c] = "done"
            /\ ret'[c] = [kind |-> "RateLimitError", val |-> NoToken,
                          retry_after |-> resp'[c].resetsIn,
                          reset_at |-> now + resp'[c].resetsIn,
                          remaining |-> resp'[c].remaining]
            /\ hist'[c].http = hist[c].http
            /\ wake'[c] = wake[c]
            /\ attempt'[c] = attempt[c]]_vars

C13_Witness ==
    \E c \in Callers :
        /\ pc[c] = "done"
        /\ resp[c].status = 429
        /\ resp[c].resetsIn = 3
        /\ resp[c].remaining = 0
        /\ attempt[c] = 0
        /\ hist[c].http[req[c].path] = 1
        /\ ret[c].kind = "RateLimitError"
        /\ ret[c].retry_after = 3
        /\ ret[c].reset_at = now + 3
        /\ ret[c].remaining = 0


\* In this step caller c receives a 401 or a 403.
Unauthorized(c) == Answered(c) /\ resp'[c].status \in {401, 403}

\* C14 as stated: an _api_wrapper call that failed with AuthenticationError
\* has sent exactly one request.
C14_OneRequestWhenUnauthorized ==
    \A c \in Callers :
        (pc[c] = "done" /\ ret[c].kind = "AuthenticationError") =>
            hist[c].http[req[c].path] = 1

\* C14, amended: a 401 or 403 ends the call at once with AuthenticationError;
\* no request follows it in that call, so the call has sent one request plus
\* one per 429 it retried in place before; token state and storage are as
\* they were.
C14_UnauthorizedNotRetried ==
    [][\A c \in Callers :
        Unauthorized(c) =>
            /\ pc'[c] = "done"
            /\ ret'[c].kind = "AuthenticationError"
            /\ hist'[c].http = hist[c].http
            /\ hist'[c].http[req[c].path] = 1 + attempt[c]
            /\ prefs' = prefs
            /\ store' = store]_vars

\* A 403 answered the retry of a request whose first answer was a short 429.
C14_Witness ==
    \E c \in Callers :
        /\ pc[c] = "done"
        /\ resp[c].status = 403
        /\ ret[c].kind = "AuthenticationError"
        /\ attempt[c] = 1
        /\ hist[c].http[req[c].path] = 2


\* C15: when the refresh or the token endpoint answers 401 or 403 inside
\* get_access_token(), the call ends with AuthenticationError in that step,
\* with no further _api_wrapper call or request (a rejected refresh is not
\* followed by auth/token), the lock released, and the token state as the
\* call found it.
C15_RejectedCredentialsRaise ==
    [][\A c \in Callers :
        /\ (Passes(c) /\ op[c] \in LockedOps) => TokenState' = TokenState
        /\ (Unauthorized(c) /\ op[c] \in LockedOps /\ req[c].path \in TokenPaths) =>
            /\ pc'[c] = "done"
            /\ ret'[c].kind = "AuthenticationError"
            /\ hist'[c].calls = One(req[c].path)
            /\ hist'[c].http = hist[c].http
            /\ lock' = NoCaller
            /\ prefs' = prefs
            /\ store' = store]_vars

\* The refresh token the call held (3) was rejected: the call has failed
\* after its one refresh call, and holds the pair it held.
C15_Witness ==
    \E c \in Callers :
        /\ pc[c] = "done"
        /\ op[c] = "get_access_token"
        /\ hist[c].route = "refresh"
        /\ hist[c].calls = One("auth/refresh")
        /\ resp[c].status = 401
        /\ ret[c].kind = "AuthenticationError"
        /\ prefs.access_token = 1
        /\ prefs.refresh_token = 3
        /\ store = ToJson(prefs)


\* In this step caller c's request times out or fails in transport.
TransportFailure(c) == Answered(c) /\ resp'[c].kind = "transport_error"

\* Token state and store are as caller c's operation found them.
AsBefore(c) == TokenState = hist[c].before.prefs /\ store = hist[c].before.store

\* C16 as stated: when an operation has failed on a timeout or transport
\* failure, token state and store are exactly as they were before the
\* operation started.
C16_TransportFailureLeavesStateAsBefore ==
    \A c \in Callers :
        (pc[c] = "done" /\ resp[c].kind = "transport_error") =>
            /\ ret[c].kind = "CommunicationError"
            /\ AsBefore(c)

\* C16, amended: a timeout or transport failure ends the operation with
\* CommunicationError and the failing call changes neither token state nor
\* store; they are as the operation found them when the failing call is the
\* operation's first (the refresh or token request of get_access_token()
\* included); when it is the REST call of a domain operation whose
\* get_access_token() step had minted tokens, those tokens stay, stored and
\* saved.
C16_TransportFailureMutatesNothing ==
    [][\A c \in Callers :
        TransportFailure(c) =>
            /\ pc'[c] = "done"
            /\ ret'[c].kind = "CommunicationError"
            /\ prefs' = prefs
            /\ store' = store
            /\ hist[c].calls = One(req[c].path) => AsBefore(c)'
            /\ hist[c].calls # One(req[c].path) =>
                /\ op[c] = "domain"
                /\ req[c].path = "api"
                /\ prefs'.access_token = req[c].tok
                /\ prefs'.access_token # hist[c].before.prefs.access_token
                /\ store' = ToJson(prefs')]_vars

\* A domain operation minted tokens and then failed on its REST call: the
\* token state is not the one it found.
C16_Witness ==
    \E c \in Callers :
        /\ pc[c] = "done"
        /\ op[c] = "domain"
        /\ resp[c].kind = "transport_error"
        /\ ret[c].kind = "CommunicationError"
        /\ hist[c].before.prefs.access_token = 1
        /\ prefs.access_token = 2
        /\ ~AsBefore(c)
        /\ store = ToJson(prefs)


\* The response to caller c's request carries a status that is neither 2xx nor
\* 401, 403 or 429.
OtherStatus(c) == Answered(c) /\ resp'[c].kind = "http" /\ resp'[c].status \notin {200, 401, 403, 429}

ClientErrors == {"Error", "CommunicationError", "AuthenticationError", "RateLimitError"}

\* C18: an operation that fails raises a client error (the base error or one
\* of its subclasses) and no other exception type; an unreadable body of a
\* token, refresh or 429 response, and a token response that lacks a key, end
\* the operation with the base client error.
C18_OnlyClientErrorsEscape ==
    \A c \in Callers :
        (pc[c] = "done" /\ op[c] \in LockedOps /\ ret[c].kind # "ok") =>
            /\ ret[c].kind \in ClientErrors
            /\ resp[c].body # "json" => ret[c].kind = "Error"


\* Caller c, in request_token(), takes a step (the call itself included).
InRequestToken(c) ==
    /\ op'[c] = "request_token"
    /\ <<pc[c], op[c], req[c], attempt[c], resp[c], ret[c]>>
            # <<pc'[c], op'[c], req'[c], attempt'[c], resp'[c], ret'[c]>>

\* C19: no step of request_token() changes the in-memory token state or the
\* store (a save would), and when it has returned or raised both are as they
\* were before the call.
C19_RequestTokenMutatesNothing ==
    [][\A c \in Callers :
        InRequestToken(c) =>
            /\ prefs' = prefs
            /\ store' = store
            /\ pc'[c] = "done" => AsBefore(c)']_vars

\* request_token() has returned a fresh token on a client that has nothing
\* loaded and nothing stored: still nothing is loaded and nothing stored.
C19_Witness ==
    \E c \in Callers :
        /\ pc[c] = "done"
        /\ op[c] = "request_token"
        /\ ret[c].kind = "ok"
        /\ ret[c].val = resp[c].tok
        /\ resp[c].tok # NoToken
        /\ prefs = NoPrefs
        /\ store = NoPrefs


\* In this step caller c's domain operation makes its REST call: the
\* _api_wrapper call for the domain endpoint begins.
BeginsRestCall(c) ==
    /\ op'[c] = "domain"
    /\ hist[c].calls["api"] = 0
    /\ hist'[c].calls["api"] = 1

\* In this step get_access_token() returns a token to caller c's domain
\* operation: the stored one (reuse), or the one of the token response it has
\* just received and stored.
TokenObtained(c) ==
    \/ /\ Passes(c)
       /\ hist'[c].route = "reuse"
       /\ req'[c].tok = TokenState.access_token
    \/ /\ Answered(c)
       /\ req[c].path \in TokenPaths
       /\ resp'[c].status = 200
       /\ resp'[c].body = "json"
       /\ req'[c].tok = resp'[c].tok

\* C20: a domain operation makes its REST call only in a step in which
\* get_access_token() has returned it a token, and every request of that call
\* carries that token; a domain operation whose token step has not returned a
\* token (it is under way, or it failed) has made no REST call and sent no
\* request to the domain endpoint.
C20_TokenThenRestCall ==
    [][\A c \in Callers :
        /\ BeginsRestCall(c) =>
            /\ TokenObtained(c)
            /\ req'[c].path = "api"
            /\ req'[c].tok # NoToken
            /\ req'[c].tok = prefs'.access_token
        /\ (op[c] = "domain" /\ hist'[c].http["api"] > hist[c].http["api"]) =>
            /\ req'[c].path = "api"
            /\ req'[c].tok # NoToken
            /\ hist[c].calls["api"] = 1 => req'[c] = req[c]
        /\ (op'[c] = "domain" /\ req'[c].path # "api") =>
            /\ hist'[c].calls["api"] = 0
            /\ hist'[c].http["api"] = 0]_vars

\* A domain operation that had to authenticate or refresh has its REST call
\* in flight, carrying the token of the response it received.
C20_Witness ==
    \E c \in Callers :
        /\ op[c] = "domain"
        /\ pc[c] = "inflight"
        /\ req[c].path = "api"
        /\ hist[c].route # "reuse"
        /\ resp[c].status = 200
        /\ req[c].tok = resp[c].tok
        /\ req[c].tok # NoToken
        /\ hist[c].http["api"] = 1


\* ------------------------------------------------- listings (domain results)
\* The body of a listing response: a data list of at most MaxLen entries, or
\* no data key.  An entry is a JSON object, of which its id and its
\* serialNumber (NoSerial: null or absent) matter here.
MaxLen == 3
MaxId == 2
NoSerial == 0
Serials == {NoSerial, 1, 2}
Entries == [id : 1..MaxId, serialNumber : Serials]

RECURSIVE SeqsUpTo(_, _)
SeqsUpTo(S, n) ==
    IF n = 0 THEN {<<>>}
    ELSE LET shorter == SeqsUpTo(S, n - 1)
         IN  shorter \cup {Append(q, x) : q \in {r \in shorter : Len(r) = n - 1}, x \in S}

\* A variant that sorts by ascending id.
MutKeyAscending(e) == e.id

\* key=lambda charge: -charge["id"]
Key(e) == 0 - e.id

\* sorted(): ascending by key, entries of equal key in their original order.
\* The entry x goes behind every entry of q whose key is not greater.
RECURSIVE InsertSorted(_, _)
InsertSorted(x, q) ==
    IF q = <<>> THEN <<x>>
    ELSE IF Key(x) < Key(Head(q)) THEN <<x>> \o q
    ELSE <<Head(q)>> \o InsertSorted(x, Tail(q))

RECURSIVE sorted(_)
sorted(q) ==
    IF q = <<>> THEN <<>>
    ELSE InsertSorted(q[Len(q)], sorted(SubSeq(q, 1, Len(q) - 1)))

\* The result of async_get_charges / async_get_wallet_transactions on a body
\* whose data list is d (present = FALSE: response.get("data") is None).
SortedListing(present, d) == sorted(IF present THEN d ELSE <<>>)

ListingOps == {"get_charges", "get_wallet_transactions"}

\* The listing operations have received their response body.
InitListings ==
    /\ ClientIdle
    /\ \E f \in ListingOps \cup {"get_charge_points"}, present \in BOOLEAN,
          d \in SeqsUpTo(Entries, MaxLen) :
        /\ present \/ d = <<>>
        /\ listing = [NoListing EXCEPT !.fn = f, !.present = present, !.data = d,
                                       !.state = "parsing"]
    /\ coord = NoCoord
    /\ hass = NoHass
    /\ flow = NoFlow
    /\ logged = NoLogged
    /\ sched = NoSched

\* async_get_charges returns the sorted entries.
ReturnCharges ==
    /\ listing.fn = "get_charges"
    /\ listing.state = "parsing"
    /\ listing' = [listing EXCEPT !.state = "returned",
                                  !.out = SortedListing(listing.present, listing.data)]
    /\ UNCHANGED <<clientVars, coord, hass, flow, logged, sched>>

\* async_get_wallet_transactions returns the sorted entries.
ReturnWalletTransactions ==
    /\ listing.fn = "get_wallet_transactions"
    /\ listing.state = "parsing"
    /\ listing' = [listing EXCEPT !.state = "returned",
                                  !.out = SortedListing(listing.present, listing.data)]
    /\ UNCHANGED <<clientVars, coord, hass, flow, logged, sched>>


\* A variant that keeps every entry, with or without a serial number.
MutHasSerialAlways(e) == TRUE

\* item.get("serialNumber") is not None
HasSerial(e) == e.serialNumber # NoSerial

\* {item["id"]: item for item in data if item.get("serialNumber") is not None}:
\* of the entries kept, a later one replaces an earlier one of the same id.
ChargePointsById(d) ==
    LET kept == SelectSeq(d, HasSerial)
        at(k) == {i \in 1..Len(kept) : kept[i].id = k}
    IN  [k \in {kept[i].id : i \in 1..Len(kept)} |->
            kept[CHOOSE i \in at(k) : \A j \in at(k) : j <= i]]

\* async_get_charge_points returns the mapping; a body without a data key
\* fails response["data"] with KeyError.
ReturnChargePoints ==
    /\ listing.fn = "get_charge_points"
    /\ listing.state = "parsing"
    /\ listing' = IF listing.present
                  THEN [listing EXCEPT !.state = "returned",
                                       !.out = ChargePointsById(listing.data)]
                  ELSE [listing EXCEPT !.state = "KeyError"]
    /\ UNCHANGED <<clientVars, coord, hass, flow, logged, sched>>

NextListings ==
    \/ ReturnCharges
    \/ ReturnWalletTransactions
    \/ ReturnChargePoints

SpecListings == InitListings /\ [][NextListings]_vars

\* The entries of sequence q, with their multiplicities.
BagOfSeq(q) == [e \in {q[i] : i \in 1..Len(q)} |-> Cardinality({i \in 1..Len(q) : q[i] = e})]

\* A sorted listing has been returned.
Listed == listing.fn \in ListingOps /\ listing.state = "returned"

\* C21 as stated: a returned listing is a permutation of the entries of the
\* data list in strictly descending order of id, and is empty when the body
\* has no data list.
C21_ListingStrictlyDescending ==
    Listed =>
        /\ BagOfSeq(listing.out) = BagOfSeq(listing.data)
        /\ Len(listing.out) = Len(listing.data)
        /\ \A i \in 1..Len(listing.out) - 1 : listing.out[i].id > listing.out[i + 1].id
        /\ ~listing.present => listing.out = <<>>

\* C21, amended: a returned listing is a permutation of the entries of the
\* data list in descending order of id (strictly descending when the ids are
\* distinct; entries of the same id stay in the order delivered), and is
\* empty when the body has no data list.
C21_ListingDescending ==
    Listed =>
        /\ BagOfSeq(listing.out) = BagOfSeq(listing.data)
        /\ Len(listing.out) = Len(listing.data)
        /\ \A i \in 1..Len(listing.out) - 1 : listing.out[i].id >= listing.out[i + 1].id
        /\ (\A i, j \in 1..Len(listing.data) :
                i # j => listing.data[i].id # listing.data[j].id) =>
            \A i \in 1..Len(listing.out) - 1 : listing.out[i].id > listing.out[i + 1].id
        /\ \A i, j \in 1..Len(listing.data) :
            (i < j /\ listing.data[i].id = listing.data[j].id
                   /\ listing.data[i] # listing.data[j]) =>
                \E k, l \in 1..Len(listing.out) :
                    k < l /\ listing.out[k] = listing.data[i] /\ listing.out[l] = listing.data[j]
        /\ ~listing.present => listing.out = <<>>

\* Entries delivered in ascending order of id have been returned in
\* descending order.
C21_Witness ==
    /\ Listed
    /\ Len(listing.data) = 3
    /\ listing.data[1].id < listing.data[3].id
    /\ listing.out[1].id > listing.out[3].id
    /\ listing.out[1] = listing.data[3]


\* The mapping of charge points has been returned.
ChargePointsListed == listing.fn = "get_charge_points" /\ listing.state = "returned"

\* C22 as stated: the mapping returned holds, under its id, every entry of
\* the data list that has a serial number, and nothing else.
C22_EveryEntryWithSerialKept ==
    ChargePointsListed =>
        /\ \A k \in DOMAIN listing.out :
            /\ listing.out[k].id = k
            /\ listing.out[k].serialNumber # 0
            /\ \E i \in 1..Len(listing.data) : listing.data[i] = listing.out[k]
        /\ \A i \in 1..Len(listing.data) :
            listing.data[i].serialNumber # 0 =>
                /\ listing.data[i].id \in DOMAIN listing.out
                /\ listing.out[listing.data[i].id] = listing.data[i]

\* C22, amended: the mapping returned has exactly the ids of the entries of
\* the data list that have a serial number, and holds under each id the last
\* such entry of the list; an entry without a serial number is nowhere in it.
C22_LastEntryWithSerialKept ==
    ChargePointsListed =>
        /\ \A k \in DOMAIN listing.out :
            /\ listing.out[k].id = k
            /\ listing.out[k].serialNumber # 0
        /\ \A i \in 1..Len(listing.data) :
            listing.data[i].serialNumber # 0 =>
                /\ listing.data[i].id \in DOMAIN listing.out
                /\ (\A j \in 1..Len(listing.data) :
                        (j > i /\ listing.data[j].id = listing.data[i].id) =>
                            listing.data[j].serialNumber = 0) =>
                    listing.out[listing.data[i].id] = listing.data[i]
        /\ \A k \in DOMAIN listing.out :
            \E i \in 1..Len(listing.data) : listing.data[i] = listing.out[k]

\* A data list of one entry without and two entries with a serial number has
\* been reduced to the two.
C22_Witness ==
    /\ ChargePointsListed
    /\ Len(listing.data) = 3
    /\ listing.data[2].serialNumber = 0
    /\ listing.data[1].serialNumber # 0
    /\ listing.data[3].serialNumber # 0
    /\ listing.data[1].id # listing.data[3].id
    /\ listing.data[2].id = listing.data[1].id
    /\ DOMAIN listing.out = {listing.data[1].id, listing.data[3].id}
    /\ listing.out[listing.data[1].id] = listing.data[1]


\* ------------------------------------------------------------- coordinator
\* States a charge point reports (const.py ChargerStatus), and those whose
\* name begins with "busy".
ChargerStatus == {"available", "busy", "busy-blocked", "busy-charging", "busy-scheduled",
                  "error", "disconnected", "passive"}
BusyStatus == {"busy", "busy-blocked", "busy-charging", "busy-scheduled"}

\* state.startswith("busy")
startswith_busy(st) == st \in BusyStatus

\* retry_after_seconds of a RateLimitError: None, or seconds.
RetryAfters == {NoReset, 0, 3, 40, 297, 400}

\* How a call of a client operation ends for the coordinator: it returns, or
\* raises one of the client's errors, or the KeyError of an incomplete token
\* response.
ClientResults ==
    {Returned(NoToken)}
        \cup {Raised(k) : k \in {"Error", "CommunicationError", "AuthenticationError", "KeyError"}}
        \cup {RateLimitError(r, NoTime) : r \in RetryAfters}

\* How a call of start_charge, stop_charge or the listing ends: as above, the
\* retry_after of a RateLimitError (which these callers do not read) being
\* None.
ChargeResults == {r \in ClientResults : r.kind = "RateLimitError" => r.retry_after = NoReset}

\* The data lists a charges response may carry for the coordinator.
ChargeLists == SeqsUpTo([id : 1..MaxId, serialNumber : {NoSerial}], 2)

\* The one charge point of the model.
TheChargePoint == 1

\* int(random.uniform(0, 3))
Jitters == {0, 1, 2, 3}

Min(a, b) == IF a < b THEN a ELSE b

\* The except clauses of the coordinator (lines 122-143, 149-152, 161-164):
\* what the operation raises for client result r.
Surface(r) ==
    IF r.kind = "ok" THEN "ok"
    ELSE IF r.kind = "AuthenticationError" THEN "ConfigEntryAuthFailed"
    ELSE IF r.kind \in ClientErrors THEN "UpdateFailed"
    ELSE r.kind

\* A variant that backs off to retry_after + 2 even when that is less than
\* the interval in use.
MutBackoffForgetsInterval(cur, ra, j) ==
    Min(MAX_UPDATE_INTERVAL_SECONDS, (IF ra = NoReset \/ ra = 0 THEN 5 ELSE ra) + 2 + j)

\* A variant that backs off without the two seconds of margin.
MutBackoffNoMargin(cur, ra, j) ==
    Min(MAX_UPDATE_INTERVAL_SECONDS,
        Max(cur, (IF ra = NoReset \/ ra = 0 THEN 5 ELSE ra) + j))

\* The interval after a rate-limited cycle: retry_after = ra (or 5 when it
\* is None or 0), jitter j, interval in use cur.
Backoff(cur, ra, j) ==
    Min(MAX_UPDATE_INTERVAL_SECONDS,
        Max(cur, (IF ra = NoReset \/ ra = 0 THEN 5 ELSE ra) + 2 + j))

\* A variant that leaves the interval as it is after a successful cycle.
MutAfterSuccessKeeps(cur) == cur

\* The interval after a successful cycle.
AfterSuccess(cur) ==
    IF cur > BASE_UPDATE_INTERVAL_SECONDS THEN BASE_UPDATE_INTERVAL_SECONDS ELSE cur

\* The coordinator at the start of operation name.
Called(name) ==
    [coord EXCEPT !.call = name, !.found = coord.state, !.listed = FALSE,
                  !.charges = <<>>, !.starts = <<>>, !.stops = <<>>,
                  !.client = NoRet, !.before = coord.update_interval, !.result = "none"]

\* A variant of the listener that keeps the override.
MutKeepsOverride(k) == k

\* MontaSwitch._handle_coordinator_update on coordinator record k.
_handle_coordinator_update(k) == [k EXCEPT !._local_state = "None"]

\* _async_update_data: a poll cycle.  Its client calls end with result r
\* (the first that raises, or all returned); a successful cycle brings the
\* charge point's state st.  The coordinator then calls its listeners, the
\* switch among them: after every successful cycle, after a failed one
\* when it is the first to fail (notified).
_async_update_data ==
    \E r \in ClientResults, j \in Jitters, st \in ChargerStatus, notified \in BOOLEAN :
        LET k == Called("poll")
            polled == [k EXCEPT
                    !.client = r,
                    !.result = Surface(r),
                    !.state = st,
                    !.update_interval =
                        IF r.kind = "ok" THEN AfterSuccess(@)
                        ELSE IF r.kind = "RateLimitError" THEN Backoff(@, r.retry_after, j)
                        ELSE @]
        IN  /\ (r.kind = "ok") \/ st = coord.state
            /\ (r.kind = "RateLimitError") \/ j = 0
            /\ (r.kind = "ok") => notified
            /\ (coord._local_state = "None") => notified
            /\ coord' = IF notified THEN _handle_coordinator_update(polled) ELSE polled
            /\ UNCHANGED <<clientVars, listing, hass, flow, logged, sched>>

\* MontaDataUpdateCoordinator.async_start_charge on coordinator record k, the
\* client's start_charge ending with r.
async_start_charge(k, r) ==
    [k EXCEPT !.starts = Append(@, TheChargePoint), !.client = r, !.result = Surface(r)]

\* MontaDataUpdateCoordinator.async_stop_charge on coordinator record k: the
\* listing (outside the try block) ends with l, carrying data list d; the
\* client's stop_charge with r.
async_stop_charge(k, l, d, r) ==
    IF l.kind # "ok" THEN [k EXCEPT !.listed = TRUE, !.client = l, !.result = l.kind]
    ELSE IF SortedListing(TRUE, d) = <<>>
    THEN [k EXCEPT !.listed = TRUE, !.charges = <<>>, !.client = l, !.result = "IndexError"]
    ELSE [k EXCEPT !.listed = TRUE, !.charges = SortedListing(TRUE, d),
                   !.stops = Append(@, SortedListing(TRUE, d)[1].id),
                   !.client = r, !.result = Surface(r)]

\* services.py: service_handle_start_charging.
service_handle_start_charging ==
    \E r \in ChargeResults :
        /\ coord' = IF coord.state = "available"
                    THEN async_start_charge(Called("service_start"), r)
                    ELSE [Called("service_start") EXCEPT !.result = "Invalid"]
        /\ (coord.state = "available") \/ r = Returned(NoToken)
        /\ UNCHANGED <<clientVars, listing, hass, flow, logged, sched>>

\* services.py: service_handle_stop_charging.
service_handle_stop_charging ==
    \E l \in ChargeResults, d \in ChargeLists, r \in ChargeResults :
        /\ coord' = IF startswith_busy(coord.state)
                    THEN async_stop_charge(Called("service_stop"), l, d, r)
                    ELSE [Called("service_stop") EXCEPT !.result = "Invalid"]
        /\ startswith_busy(coord.state) \/ l = Returned(NoToken)
        /\ (l.kind = "ok") \/ d = <<>>
        /\ (d # <<>>) \/ r = Returned(NoToken)
        /\ UNCHANGED <<clientVars, listing, hass, flow, logged, sched>>

\* The switch whose coordinator call has ended as record k: the call raised,
\* or it returned and self._local_state = v.
SetLocalState(k, v) == IF k.result = "ok" THEN [k EXCEPT !._local_state = v] ELSE k

\* MontaSwitch.available and MontaSwitch.is_on.
available(k) == k.state \notin {"disconnected", "error"}

\* A variant that is on in every state beginning with "busy".
MutIsOnWhenBusy(k) ==
    IF k._local_state # "None" THEN k._local_state = "True" ELSE startswith_busy(k.state)

is_on(k) ==
    IF k._local_state # "None" THEN k._local_state = "True"
    ELSE k.state \in {"busy-charging", "busy", "busy-scheduled"}

\* switch.py: MontaSwitch.async_turn_on.
async_turn_on ==
    \E r \in ChargeResults :
        /\ coord' = SetLocalState(async_start_charge(Called("turn_on"), r), "True")
        /\ UNCHANGED <<clientVars, listing, hass, flow, logged, sched>>

\* switch.py: MontaSwitch.async_turn_off.
async_turn_off ==
    \E l \in ChargeResults, d \in ChargeLists, r \in ChargeResults :
        /\ coord' = SetLocalState(async_stop_charge(Called("turn_off"), l, d, r), "False")
        /\ (l.kind = "ok") \/ d = <<>>
        /\ (d # <<>>) \/ r = Returned(NoToken)
        /\ UNCHANGED <<clientVars, listing, hass, flow, logged, sched>>

InitCoordinator ==
    ClientIdle /\ HostIdle

NextCoordinator ==
    \/ _async_update_data
    \/ service_handle_start_charging
    \/ service_handle_stop_charging
    \/ async_turn_on
    \/ async_turn_off

SpecCoordinator == InitCoordinator /\ [][NextCoordinator]_vars


\* The caller-facing operations that start, and that stop, a charge.
StartOperations == {"service_start", "turn_on"}
StopOperations == {"service_stop", "turn_off"}

\* C23: a caller-facing start operation reaches the client's start_charge
\* only when the charge point's state is "available", a stop operation the
\* client's stop_charge only when the state begins with "busy"; in any other
\* state the operation raises a precondition failure and calls no client
\* operation.
C23_StartStopOnlyInState ==
    /\ coord.starts # <<>> => coord.found = "available"
    /\ coord.stops # <<>> =>
            coord.found \in {"busy", "busy-blocked", "busy-charging", "busy-scheduled"}
    /\ (coord.call \in StartOperations /\ coord.found # "available") =>
            coord.result = "Invalid" /\ coord.starts = <<>>
    /\ (coord.call \in StopOperations
            /\ coord.found \notin {"busy", "busy-blocked", "busy-charging", "busy-scheduled"}) =>
            coord.result = "Invalid" /\ ~coord.listed /\ coord.stops = <<>>


\* C24: when a client operation called by a coordinator operation (the poll
\* cycle, start_charge, stop_charge with its listing) has raised
\* AuthenticationError the coordinator operation has raised
\* ConfigEntryAuthFailed, when it has raised another client error,
\* UpdateFailed; the coordinator never raises a client error itself.
C24_ClientErrorsTranslated ==
    /\ coord.client.kind = "AuthenticationError" => coord.result = "ConfigEntryAuthFailed"
    /\ coord.client.kind \in {"Error", "CommunicationError", "RateLimitError"} =>
            coord.result = "UpdateFailed"
    /\ coord.result \notin {"Error", "CommunicationError", "AuthenticationError", "RateLimitError"}


\* The listing of a stop operation has returned its (sorted) list.
ListingReturned ==
    /\ coord.call \in StopOperations
    /\ coord.listed
    /\ coord.charges # <<>> \/ coord.result = "IndexError"

\* C25: a stop operation of the coordinator whose listing has returned makes
\* exactly one stop_charge call of the client, for the id of the first entry
\* of the listing, which is the highest id listed; a start operation of the
\* coordinator makes exactly one start_charge call, for the charge point, and
\* neither lists nor stops.
C25_StopsMostRecentCharge ==
    /\ coord.stops # <<>> => ListingReturned
    /\ ListingReturned =>
        /\ Len(coord.stops) = 1
        /\ coord.charges # <<>>
        /\ coord.stops[1] = coord.charges[1].id
        /\ \A i \in 1..Len(coord.charges) : coord.charges[i].id <= coord.stops[1]
        /\ coord.starts = <<>>
    /\ (coord.call \in StartOperations /\ coord.result # "Invalid") =>
        /\ coord.starts = <<TheChargePoint>>
        /\ coord.stops = <<>>
        /\ ~coord.listed
    /\ coord.starts # <<>> => coord.call \in StartOperations


\* The last operation was a poll cycle that failed with RateLimitError.
RateLimitedCycle == coord.call = "poll" /\ coord.client.kind = "RateLimitError"

\* C26: the update interval is always between 30 and 300 seconds, and after
\* a cycle that failed with RateLimitError it is not less than it was before
\* the cycle and at least retry_after + 2 seconds, or 300 if that is more.
C26_IntervalBoundedAndWidened ==
    /\ coord.update_interval >= 30
    /\ coord.update_interval <= 300
    /\ RateLimitedCycle =>
        /\ coord.update_interval >= coord.before
        /\ coord.result = "UpdateFailed"
        /\ coord.client.retry_after # NoReset =>
            \/ coord.update_interval >= coord.client.retry_after + 2
            \/ coord.update_interval = 300 /\ coord.client.retry_after + 2 > 300

\* A cycle was rate limited with a retry_after shorter than the interval
\* already in use, which an earlier rate-limited cycle had widened: the
\* interval stayed.
C26_Witness ==
    /\ RateLimitedCycle
    /\ coord.before > 30
    /\ coord.before < 300
    /\ coord.client.retry_after = 3
    /\ coord.update_interval = coord.before

\* C27: after a poll cycle that completed successfully the update interval is
\* exactly 30 seconds, whatever it was; after a cycle that failed with
\* anything but RateLimitError it is what it was before the cycle.
C27_ResetAfterSuccess ==
    /\ (coord.call = "poll" /\ coord.result = "ok") => coord.update_interval = 30
    /\ (coord.call = "poll" /\ coord.result # "ok" /\ coord.client.kind # "RateLimitError") =>
            coord.update_interval = coord.before

\* A cycle succeeded after rate limiting had widened the interval to the
\* maximum: the interval is back at 30.
C27_Witness ==
    /\ coord.call = "poll"
    /\ coord.result = "ok"
    /\ coord.before = 300
    /\ coord.update_interval = 30


\* ------------------------------------------------- config entry lifecycle
\* MontaApiClient instances constructed at most (setups and reloads that can
\* be followed).
MaxClients == 4

\* A variant in which the wallet coordinator is given a client of its own.
MutRegisterOwnClient(n) ==
    [registered |-> TRUE, clients |-> [k \in Coordinators |-> IF k = "wallet" THEN n - 1 ELSE n]]

\* hass.data[DOMAIN][entry.entry_id] = the coordinators, built on client n.
Register(n) == [registered |-> TRUE, clients |-> [k \in Coordinators |-> n]]

\* hass.data[DOMAIN].pop(entry.entry_id)
Pop(d, e) == [d EXCEPT ![e] = NotRegistered]

\* async_setup_entry of an entry that is not loaded: a client is constructed
\* and the coordinators registered under the entry id; then the first
\* refresh succeeds (the entry is loaded, True returned) or raises.
async_setup_entry(e) ==
    \E refreshed \in BOOLEAN :
        /\ ~hass.loaded[e]
        /\ hass.constructed < MaxClients
        /\ hass' = [hass EXCEPT !.data[e] = Register(hass.constructed + 1),
                                !.constructed = @ + 1,
                                !.loaded[e] = refreshed,
                                !.found[e] = hass.data[e],
                                !.last[e] = IF refreshed THEN "setup" ELSE "setup_raised"]
        /\ UNCHANGED <<clientVars, listing, coord, flow, logged, sched>>

\* async_unload_entry of a loaded entry: the registration is removed when the
\* platforms unloaded.
async_unload_entry(e) ==
    \E unloaded \in BOOLEAN :
        /\ hass.loaded[e]
        /\ hass' = [hass EXCEPT !.data = IF unloaded THEN Pop(@, e) ELSE @,
                                !.loaded[e] = ~unloaded,
                                !.found[e] = hass.data[e],
                                !.last[e] = IF unloaded THEN "unload" ELSE "unload_refused"]
        /\ UNCHANGED <<clientVars, listing, coord, flow, logged, sched>>

\* async_reload_entry of a loaded entry: async_unload_entry, whatever it
\* returns, then async_setup_entry.
async_reload_entry(e) ==
    \E unloaded \in BOOLEAN, refreshed \in BOOLEAN :
        /\ hass.loaded[e]
        /\ hass.constructed < MaxClients
        /\ hass' = [hass EXCEPT
                !.data = [(IF unloaded THEN Pop(@, e) ELSE @)
                            EXCEPT ![e] = Register(hass.constructed + 1)],
                !.constructed = @ + 1,
                !.loaded[e] = refreshed,
                !.found[e] = hass.data[e],
                !.last[e] = IF refreshed THEN "reload" ELSE "reload_raised"]
        /\ UNCHANGED <<clientVars, listing, coord, flow, logged, sched>>

InitLifecycle ==
    ClientIdle /\ HostIdle

NextLifecycle ==
    \/ \E e \in EntryIds : async_setup_entry(e)
    \/ \E e \in EntryIds : async_unload_entry(e)
    \/ \E e \in EntryIds : async_reload_entry(e)

SpecLifecycle == InitLifecycle /\ [][NextLifecycle]_vars

\* The coordinators registered for entry e are built on one client, which
\* is not the one of the registration the last call found.
OneSharedClient(e) ==
    \E n \in 1..hass.constructed :
        /\ \A k \in Coordinators : hass.data[e].clients[k] = n
        /\ \A k \in Coordinators : hass.found[e].clients[k] # n

\* C28: after a successful setup the entry id is registered; after a
\* successful unload it is not; after a reload it is registered again, with
\* one client instance shared by all the entry's coordinators.
C28_RegisteredWhileLoaded ==
    \A e \in EntryIds :
        /\ hass.last[e] = "setup" => hass.data[e].registered /\ OneSharedClient(e)
        /\ hass.last[e] = "unload" => ~hass.data[e].registered
        /\ hass.last[e] \in {"reload", "reload_raised"} =>
                hass.data[e].registered /\ OneSharedClient(e)

\* An entry was set up, unloaded, set up again and then reloaded: it is
\* registered with the client the reload constructed.
C28_Witness ==
    \E e \in EntryIds :
        /\ hass.last[e] = "reload"
        /\ hass.found[e].registered
        /\ hass.found[e].clients["wallet"] = 2
        /\ hass.data[e].registered
        /\ hass.data[e].clients = [k \in Coordinators |-> 3]


\* ------------------------------------------------------------- config flow
\* Config entries created at most.
MaxEntries == 2

\* How request_token() of the client the flow constructs ends: the token
\* response, a client error, or the KeyError of TokenResponse.from_dict on
\* an incomplete payload.
TokenResults == {"ok", "AuthenticationError", "CommunicationError", "Error", "KeyError"}

\* errors["base"] set by the except clauses around _test_credentials.
ErrorBase(r) ==
    CASE r = "AuthenticationError" -> "auth"
      [] r = "CommunicationError" -> "connection"
      [] r = "Error" -> "unknown"
      [] OTHER -> "none"

\* What a step that called request_token() ends in: the entry, the form
\* again, or the exception no except clause names.
StepResult(r) ==
    IF r = "ok" THEN "create_entry"
    ELSE IF ErrorBase(r) # "none" THEN "form" ELSE r

\* async_step_user: without user_input the form; with it one request_token()
\* with the submitted credentials, then the entry or the form with an error.
async_step_user ==
    \E input \in Credentials \cup {NoInput}, r \in TokenResults :
        /\ input = NoInput => r = "ok"
        /\ input # NoInput /\ r = "ok" => Len(flow.entries) < MaxEntries
        /\ flow' = IF input = NoInput
                   THEN [flow EXCEPT !.step = "user", !.which = 0, !.input = input,
                                     !.before = flow.entries, !.requests = 0,
                                     !.client = "none", !.result = "form",
                                     !.errors = "none"]
                   ELSE [flow EXCEPT !.step = "user", !.which = 0, !.input = input,
                                     !.before = flow.entries, !.requests = 1,
                                     !.client = r, !.result = StepResult(r),
                                     !.errors = ErrorBase(r),
                                     !.entries = IF r = "ok" THEN Append(@, input) ELSE @]
        /\ UNCHANGED <<clientVars, listing, coord, hass, logged, sched>>

\* The submitted client id or client secret is not the stored one.
CredentialsChanged(input, data) ==
    input.client_id # data.client_id \/ input.client_secret # data.client_secret

\* MontaOptionsFlowHandler.async_step_init for entry i: without user_input
\* the form; with changed credentials one request_token() and, when it
\* returned, async_update_entry; with unchanged ones no request.
async_step_init(i) ==
    \E input \in Credentials \cup {NoInput}, r \in TokenResults :
        LET changed == input # NoInput /\ CredentialsChanged(input, flow.entries[i]) IN
        /\ ~changed => r = "ok"
        /\ flow' = [flow EXCEPT
                !.step = "init", !.which = i, !.input = input,
                !.before = flow.entries,
                !.requests = IF changed THEN 1 ELSE 0,
                !.client = IF changed THEN r ELSE "none",
                !.result = IF input = NoInput THEN "form"
                           ELSE IF changed THEN StepResult(r) ELSE "create_entry",
                !.errors = IF changed THEN ErrorBase(r) ELSE "none",
                !.entries = IF changed /\ r = "ok" THEN [@ EXCEPT ![i] = input] ELSE @]
        /\ UNCHANGED <<clientVars, listing, coord, hass, logged, sched>>

InitFlow ==
    ClientIdle /\ HostIdle

NextFlow ==
    \/ async_step_user
    \/ \E i \in 1..Len(flow.entries) : async_step_init(i)

SpecFlow == InitFlow /\ [][NextFlow]_vars

\* C29: after a step of the user flow an entry has been created exactly when
\* request_token() returned, with the submitted credentials as its data;
\* when request_token() failed the entries are as before and the form is
\* shown again, with base "auth" after an authentication error,
\* "connection" after a communication error and "unknown" otherwise.
C29_EntryIffTokenObtained ==
    flow.step = "user" =>
        /\ flow.entries # flow.before <=> flow.client = "ok"
        /\ flow.client = "ok" =>
                flow.result = "create_entry" /\ flow.entries = Append(flow.before, flow.input)
        /\ flow.client \notin {"none", "ok"} =>
                /\ flow.entries = flow.before
                /\ flow.result = "form"
                /\ flow.errors = CASE flow.client = "AuthenticationError" -> "auth"
                                   [] flow.client = "CommunicationError" -> "connection"
                                   [] OTHER -> "unknown"


\* C30: a step of the options flow has made one request_token() call when
\* the submitted client id or client secret differs from the stored entry
\* and none otherwise; when that call failed the entry data is as before
\* and the form is shown again with an error.
C30_ValidatesChangedCredentials ==
    flow.step = "init" =>
        LET stored == flow.before[flow.which]
            differs == /\ flow.input # NoInput
                       /\ \/ flow.input.client_id # stored.client_id
                          \/ flow.input.client_secret # stored.client_secret
        IN  /\ flow.requests = IF differs THEN 1 ELSE 0
            /\ differs <=> flow.client # "none"
            /\ flow.client \notin {"none", "ok"} =>
                    /\ flow.entries = flow.before
                    /\ flow.result = "form"
                    /\ flow.errors \in {"auth", "connection", "unknown"}


\* ------------------------------------------------------------- the switch
\* C31: with no local override the switch is unavailable exactly in the
\* states "disconnected" and "error", and on exactly in the states
\* "busy-charging", "busy" and "busy-scheduled".
C31_SwitchFollowsState ==
    /\ ~available(coord) <=> coord.state \in {"disconnected", "error"}
    /\ coord._local_state = "None" =>
        /\ is_on(coord) <=> coord.state \in {"busy-charging", "busy", "busy-scheduled"}
        /\ coord.state \in {"available", "busy-blocked", "busy-non-charging",
                             "busy-non-released", "busy-reserved", "error",
                             "disconnected", "passive", "other"} => ~is_on(coord)

\* A poll cycle has brought a state that begins with "busy" in which the
\* switch, without override, is off and available.
C31_Witness ==
    /\ coord.call = "poll"
    /\ coord.result = "ok"
    /\ coord._local_state = "None"
    /\ coord.state = "busy-blocked"
    /\ ~is_on(coord)
    /\ available(coord)

\* C39: after turn_on has completed is_on is true and after turn_off has
\* completed is_on is false, whatever the state reported; the override
\* stays through every operation but a coordinator update, which clears it
\* so that is_on follows the reported state; a turn_on or turn_off whose
\* coordinator call raised leaves the override as it was.
C39_OptimisticOverride ==
    [][/\ (coord'.call = "turn_on" /\ coord'.result = "ok") =>
            coord'._local_state = "True" /\ is_on(coord')
       /\ (coord'.call = "turn_off" /\ coord'.result = "ok") =>
            coord'._local_state = "False" /\ ~is_on(coord')
       /\ (coord'.call \in {"turn_on", "turn_off"} /\ coord'.result # "ok") =>
            coord'._local_state = coord._local_state
       /\ coord'.call \in {"service_start", "service_stop"} =>
            coord'._local_state = coord._local_state
       /\ (coord'.call = "poll" /\ coord'.result = "ok") =>
            /\ coord'._local_state = "None"
            /\ is_on(coord') <=> coord'.state \in {"busy-charging", "busy", "busy-scheduled"}
      ]_vars

\* turn_off has completed while the state reported is "busy-charging": the
\* switch is off.
C39_Witness ==
    /\ coord.call = "turn_off"
    /\ coord.result = "ok"
    /\ coord.state = "busy-charging"
    /\ ~is_on(coord)


\* ------------------------------------------------------------ termination
\* Time passes while a caller sleeps.
Elapse ==
    /\ \E c \in Callers : pc[c] = "sleeping" /\ now < wake[c]
    /\ now' = now + 1
    /\ UNCHANGED <<prefs, store, lock, waiters, rate_limited_until, pc, op, req,
                   attempt, wake, resp, ret, hist>>

\* The request of caller c is answered, one way or another (P: the
\* expiration dates a token response may carry).
Responds(c, P) ==
    \/ RespondTransportError(c)
    \/ RespondUnauthorized(c)
    \/ RespondServerError(c)
    \/ RespondMalformed(c)
    \/ RespondIncomplete(c)
    \/ RespondRateLimited(c, ResetsIn)
    \/ RespondSuccess(c, P)

\* One caller that makes one call, of any operation, on a client constructed
\* over any store.
NextFair ==
    \/ \E c \in Solo : Invoke(c, Ops) /\ UNCHANGED hostVars
    \/ \E c \in Solo : InvokeDirect(c, Ops) /\ UNCHANGED hostVars
    \/ \E c \in Solo : Enter(c) /\ UNCHANGED hostVars
    \/ \E c \in Solo : Responds(c, PayloadExpiries \X PayloadExpiries) /\ UNCHANGED hostVars
    \/ \E c \in Solo : Wake(c) /\ UNCHANGED hostVars
    \/ Elapse /\ UNCHANGED hostVars

\* No HTTP request stays unanswered, no sleep lasts for ever, and a free
\* lock is handed to the first waiter.
Fairness(C, P) ==
    /\ \A c \in C : WF_vars(Enter(c) /\ UNCHANGED hostVars)
    /\ \A c \in C : WF_vars(Responds(c, P) /\ UNCHANGED hostVars)
    /\ \A c \in C : WF_vars(Wake(c) /\ UNCHANGED hostVars)
    /\ WF_vars(Elapse /\ UNCHANGED hostVars)

SpecFair ==
    Init /\ [][NextFair]_vars /\ Fairness(Solo, PayloadExpiries \X PayloadExpiries)

\* The number of requests each _api_wrapper call of the caller's operation
\* may have sent.
WithinBudget(c) ==
    /\ attempt[c] <= max_short_retries
    /\ \A x \in Paths : hist[c].http[x] <= (max_short_retries + 1) * hist[c].calls[x]
    /\ \A x \in Paths : hist[c].calls[x] <= 1

\* The caller is inside an _api_wrapper call.
Executing(c) == pc[c] \in {"inflight", "sleeping"}

\* C32: an _api_wrapper call makes at most two retries in place and sends at
\* most three requests; a 429 received with the two retries used up ends
\* the call with RateLimitError; every call that has sent a request ends.
C32_BudgetThenRateLimitError ==
    /\ [](\A c \in Callers : WithinBudget(c))
    /\ [][\A c \in Callers :
            (Answered(c) /\ resp'[c].status = 429 /\ attempt[c] = max_short_retries) =>
                pc'[c] = "done" /\ ret'[c].kind = "RateLimitError"]_vars
    /\ \A c \in Callers : Executing(c) ~> (pc[c] = "done" /\ ret[c].kind # "none")

\* C32 (amended): as above, but the 429 received with the two retries used
\* up ends the call with RateLimitError when its body parses and with the
\* base client error when its resetsIn is no number.
C32_BudgetThenError ==
    /\ [](\A c \in Callers : WithinBudget(c))
    /\ [][\A c \in Callers :
            (Answered(c) /\ resp'[c].status = 429 /\ attempt[c] = max_short_retries) =>
                /\ pc'[c] = "done"
                /\ ret'[c].kind = IF resp'[c].body = "json" THEN "RateLimitError" ELSE "Error"]_vars
    /\ \A c \in Callers : Executing(c) ~> (pc[c] = "done" /\ ret[c].kind # "none")

\* A call has ended with RateLimitError after three requests, the third
\* answered 429 like the two before it.
C32_Witness ==
    \E c \in Callers :
        /\ pc[c] = "done"
        /\ attempt[c] = max_short_retries
        /\ hist[c].http[req[c].path] = max_short_retries + 1
        /\ resp[c].status = 429
        /\ resp[c].resetsIn = 1
        /\ ret[c].kind = "RateLimitError"


\* The token-minting operations (_api_wrapper calls to auth/refresh and
\* auth/token) of the caller's operation.
Mints(h) == h.calls["auth/refresh"] + h.calls["auth/token"]

\* C33: a get_access_token() call makes at most one token-minting operation;
\* when that is answered with a token response the call returns the
\* response's access token at once, with no further call, whatever the
\* lifetime the response gives the token.
C33_OneMintPerCall ==
    [][\A c \in Callers :
        /\ op'[c] = "get_access_token" => Mints(hist'[c]) <= 1
        /\ (Answered(c) /\ op[c] = "get_access_token"
                /\ resp'[c].status = 200 /\ resp'[c].body = "json") =>
            /\ pc'[c] = "done"
            /\ ret'[c].kind = "ok"
            /\ ret'[c].val = resp'[c].tok
            /\ hist'[c].calls = hist[c].calls
            /\ hist'[c].http = hist[c].http
            /\ lock' = NoCaller]_vars

\* A get_access_token() call has refreshed, got a token whose expiration is
\* not more than the preemptive window away, and returned it after that
\* one refresh.
C33_Witness ==
    \E c \in Callers :
        /\ pc[c] = "done"
        /\ op[c] = "get_access_token"
        /\ hist[c].route = "refresh"
        /\ resp[c].ae = Iso(PREEMPTIVE_REFRESH_TTL_IN_SECONDS)
        /\ ~_is_access_token_valid(prefs, now)
        /\ ret[c] = Returned(resp[c].tok)
        /\ Mints(hist[c]) = 1


\* ----------------------------------------------------------------- logging
\* PRIVATE_INFORMATION; the keys of the bodies modelled: one that is private
\* and one that is not.
PRIVATE_INFORMATION ==
    {"accessToken", "refreshToken", "serialNumber", "latitude", "longitude",
     "address1", "address2", "address3"}
BodyKeys == {"serialNumber", "name"}

\* Items a list holds at most.
MaxItems == 2

\* The scalars of the bodies modelled, and len(str(value)).
Scalars == {"a", "b", "cc"}
len_str(x) == IF x = "cc" THEN 2 ELSE IF x = "" THEN 0 ELSE 1

\* "*" * n
Stars(n) == IF n = 0 THEN "" ELSE IF n = 1 THEN "*" ELSE "**"

\* The values a key of a body may hold, and the bodies.
Objects == [BodyKeys -> Scalars]
Values ==
    {Scalar(x) : x \in Scalars}
        \cup {List(q) : q \in SeqsUpTo(Scalars, MaxItems)}
        \cup {Object(o) : o \in Objects}
Bodies == [BodyKeys -> Values]

\* _filter_private_information, the scalar value x under key.
FilterScalar(key, x) == IF key \in PRIVATE_INFORMATION THEN Stars(len_str(x)) ELSE x

\* _filter_private_information on an object of scalars.
FilterObject(o) == [key \in BodyKeys |-> FilterScalar(key, o[key])]

\* _filter_private_information on a body: a value that is an object or a list
\* is filtered recursively, whatever its key (an item of a list that is no
\* object or list is returned as it is); a scalar is masked under a private
\* key.
_filter_private_information(b) ==
    [key \in BodyKeys |->
        IF b[key].t = "d" THEN Object(FilterObject(b[key].d))
        ELSE IF b[key].t = "l" THEN b[key]
        ELSE Scalar(FilterScalar(key, b[key].s))]

\* The operations whose responses are followed.
LoggedOps == {"get_charge_points", "stop_charge"}

\* What the client's log shows of body b, response of operation o:
\* _api_wrapper logs the filtered body; async_stop_charge then logs the
\* response it got.
Emitted(o, b) ==
    <<_filter_private_information(b)>> \o (IF o = "stop_charge" THEN <<b>> ELSE <<>>)

\* Two scalars, and two lists of scalars, of equal lengths.
SameLength(x, y) == len_str(x) = len_str(y)
SameLengths(p, q) ==
    Len(p) = Len(q) /\ \A i \in 1..Len(p) : SameLength(p[i], q[i])

\* Two objects that differ at most in the values under private keys, which
\* have equal lengths.
AlikeObjects(o1, o2) ==
    \A key \in BodyKeys :
        IF key \in PRIVATE_INFORMATION THEN SameLength(o1[key], o2[key])
        ELSE o1[key] = o2[key]

\* Two bodies that differ at most in the values stored under private keys,
\* at either depth, these values having equal lengths.
Alike(b1, b2) ==
    \A key \in BodyKeys :
        /\ b1[key].t = b2[key].t
        /\ IF key \in PRIVATE_INFORMATION
           THEN /\ SameLength(b1[key].s, b2[key].s)
                /\ SameLengths(b1[key].l, b2[key].l)
                /\ \A k2 \in BodyKeys : SameLength(b1[key].d[k2], b2[key].d[k2])
           ELSE /\ b1[key].s = b2[key].s
                /\ b1[key].l = b2[key].l
                /\ AlikeObjects(b1[key].d, b2[key].d)

\* A response with body b has arrived for an operation; twin is a body it
\* is compared with.
InitLogging ==
    /\ ClientIdle
    /\ listing = NoListing /\ coord = NoCoord /\ hass = NoHass /\ flow = NoFlow
    /\ sched = NoSched
    /\ \E o \in LoggedOps, b \in Bodies, b2 \in Bodies :
        /\ Alike(b, b2)
        /\ logged = [NoLogged EXCEPT !.state = "received", !.op = o,
                                     !.body = b, !.twin = b2]

\* The operation logs and returns.
Log ==
    /\ logged.state = "received"
    /\ logged' = [logged EXCEPT !.state = "logged",
                                !.out = Emitted(logged.op, logged.body),
                                !.twinOut = Emitted(logged.op, logged.twin)]
    /\ UNCHANGED <<clientVars, listing, coord, hass, flow, sched>>

NextLogging == Log

SpecLogging == InitLogging /\ [][NextLogging]_vars

\* C34: the log of a response shows nothing of the values under private
\* keys but their lengths: two bodies that differ only in such values, of
\* equal lengths, give the same log lines, whatever the operation.
C34_LogHidesPrivateValues ==
    logged.state = "logged" => logged.out = logged.twinOut


\* ------------------------------------------------------------- token lock
\* Two callers that each make one get_access_token() call, on a client
\* constructed over any store, against a server that answers each request in
\* any way.
NextQueue ==
    \/ \E c \in Pair : Invoke(c, {"get_access_token"}) /\ UNCHANGED hostVars
    \/ \E c \in Pair : Enter(c) /\ UNCHANGED hostVars
    \/ \E c \in Pair : Responds(c, PairPayloads) /\ UNCHANGED hostVars
    \/ \E c \in Pair : Wake(c) /\ UNCHANGED hostVars
    \/ Elapse /\ UNCHANGED hostVars

SpecQueue == Init /\ [][NextQueue]_vars /\ Fairness(Pair, PairPayloads)

\* The caller is between the decision of get_access_token() and the end of
\* the token request that decision led to.
InTokenSequence(c) == Executing(c) /\ req[c].path \in TokenPaths

\* C35: the token lock is held by a caller for the whole of its
\* decide-and-possibly-refresh sequence and by nobody else, it is released on
\* every exit path, so that no caller holds it after its call ended, and each
\* caller waiting for it eventually acquires it and completes its call.
C35_LockHeldThenReleased ==
    /\ [](\A c \in Pair : (lock = c) <=> InTokenSequence(c))
    /\ \A c \in Pair : (pc[c] = "wait_lock") ~> (pc[c] = "done")

\* A caller's call ended with an exception after it had sent a token
\* request, and the caller that waited behind it holds the lock.
C35_Witness ==
    /\ pc["c1"] = "done"
    /\ ret["c1"].kind # "ok"
    /\ hist["c1"].http["auth/refresh"] + hist["c1"].http["auth/token"] > 0
    /\ lock = "c2"
    /\ InTokenSequence("c2")


\* ------------------------------------------------------- poll schedule
\* Poll cycles followed.
MaxCycles == 3

\* resetsIn of the 429 that ends a poll cycle (NoReset: none named), and of
\* the 429 that answers another caller's request between two cycles.
PollResets == {NoReset, 0, 3, 40, 297, 298, 299, 400}
OtherResets == {3, 40, 400}

\* Seconds after the last event at which another caller's request is sent.
Leaps == {1, 29, 120}

\* A poll cycle at the time it is due (the first at once): its first
\* _api_wrapper call is refused by the gate, or its requests are sent and
\* the cycle ends with a 429 naming resetsIn = r, or succeeds; the
\* coordinator widens or resets its interval and the next cycle is due one
\* interval later.
ScheduledPoll ==
    \E out \in {"ok", "429"}, r \in PollResets, j \in Jitters :
        LET t == sched.next
            b == Begin("api", NoHist, rate_limited_until, t)
            g == IF b.blocked THEN b.gate
                 ELSE IF out = "429" THEN GateAfter429(b.gate, r, t) ELSE NoTime
            res == IF b.blocked THEN b.ret
                   ELSE IF out = "429" THEN RateLimitError(r, g) ELSE Returned(NoToken)
            k == Called("poll")
            polled == [k EXCEPT
                    !.client = res,
                    !.result = Surface(res),
                    !.update_interval =
                        IF res.kind = "ok" THEN AfterSuccess(@)
                        ELSE Backoff(@, res.retry_after, j)]
        IN  /\ sched.cycles < MaxCycles
            /\ (out = "429" /\ ~b.blocked) \/ r = NoReset
            /\ (res.kind = "RateLimitError") \/ j = 0
            /\ now' = t
            /\ rate_limited_until' = g
            /\ coord' = IF res.kind = "ok" THEN _handle_coordinator_update(polled) ELSE polled
            /\ sched' = [cycles |-> sched.cycles + 1,
                         last |-> [state |-> IF res.kind = "ok" THEN "ok" ELSE "failed",
                                   at |-> t, r |-> res.retry_after, gate |-> g,
                                   refused |-> b.blocked, asked |-> FALSE,
                                   other |-> FALSE],
                         prev |-> sched.last,
                         next |-> t + polled.update_interval]
            /\ UNCHANGED <<prefs, store, lock, waiters, pc, op, req, attempt, wake, resp,
                           ret, hist, listing, hass, flow, logged>>

\* Between two cycles another caller of the client (a start or stop of a
\* charge) makes a request: the gate refuses it, or it is sent and answered
\* 429 with resetsIn = r.
RateLimitedElsewhere ==
    \E d \in Leaps, r \in OtherResets :
        LET t == now + d
            b == Begin("api", NoHist, rate_limited_until, t)
        IN  /\ sched.cycles > 0
            /\ sched.cycles < MaxCycles
            /\ ~sched.last.asked
            /\ t <= sched.next
            /\ now' = t
            /\ rate_limited_until' = IF b.blocked THEN b.gate ELSE GateAfter429(b.gate, r, t)
            /\ sched' = [sched EXCEPT !.last.asked = TRUE, !.last.other = ~b.blocked]
            /\ UNCHANGED <<prefs, store, lock, waiters, pc, op, req, attempt, wake, resp,
                           ret, hist, listing, coord, hass, flow, logged>>

InitSchedule == ClientIdle /\ HostIdle

NextSchedule ==
    \/ ScheduledPoll
    \/ RateLimitedElsewhere

SpecSchedule == InitSchedule /\ [][NextSchedule]_vars

\* The cycle ended with a RateLimitError that carries a retry_after.
RateLimitedFor(y) == y.state = "failed" /\ y.r # NoReset

\* C36 as stated: after a poll cycle that failed with a RateLimitError
\* carrying retry_after = r the update interval is at least min(300, r + 2);
\* and whenever r + 2 <= 300 the next scheduled cycle starts when the
\* client's gate has expired and is not refused by the gate.
C36_NextPollNotRefused ==
    /\ RateLimitedFor(sched.last) =>
            coord.update_interval >= Min(MAX_UPDATE_INTERVAL_SECONDS, sched.last.r + 2)
    /\ (RateLimitedFor(sched.prev) /\ sched.prev.r + 2 <= MAX_UPDATE_INTERVAL_SECONDS) =>
            /\ ~GateCheck(sched.prev.gate, sched.last.at).blocked
            /\ ~sched.last.refused

\* C36, amended: after a poll cycle that failed with a RateLimitError
\* carrying retry_after = r the update interval is at least min(300, r + 2);
\* and whenever r + 2 <= 300 the next scheduled cycle starts when the gate
\* that cycle left has expired, and, unless another caller's request was
\* rate limited in between, is not refused by the gate.
C36_NextPollAfterGate ==
    /\ RateLimitedFor(sched.last) =>
            coord.update_interval >= Min(MAX_UPDATE_INTERVAL_SECONDS, sched.last.r + 2)
    /\ (RateLimitedFor(sched.prev) /\ sched.prev.r + 2 <= MAX_UPDATE_INTERVAL_SECONDS) =>
            /\ ~GateCheck(sched.prev.gate, sched.last.at).blocked
            /\ ~sched.prev.other => ~sched.last.refused

\* A cycle that the gate refused, some 100 seconds before the gate was to
\* open, was followed by a cycle that the gate let through.
C36_Witness ==
    /\ RateLimitedFor(sched.prev)
    /\ sched.prev.refused
    /\ sched.prev.gate > sched.prev.at
    /\ sched.prev.r + 2 <= MAX_UPDATE_INTERVAL_SECONDS
    /\ ~sched.prev.other
    /\ ~sched.last.refused
    /\ sched.last.state = "ok"


\* ---------------------------------------------------- staggered charges
\* const.py
DEFAULT_CHARGES_BATCH_SIZE == 4

\* Charge points in the cache at most.
MaxCps == 6

CeilDiv(a, b) == (a + b - 1) \div b

\* Successful cycles remembered.
MaxRun == CeilDiv(MaxCps, DEFAULT_CHARGES_BATCH_SIZE)

\* A variant that advances the index by one charge point per cycle.
MutAdvanceByOne(idx, n) == IF n > 0 THEN (idx + 1) % n ELSE idx

\* self._charges_index after a batch over n cached charge points.
Advance(idx, n) ==
    IF Min(DEFAULT_CHARGES_BATCH_SIZE, n) > 0
    THEN (idx + Min(DEFAULT_CHARGES_BATCH_SIZE, n)) % n
    ELSE idx

\* idx = (self._charges_index + i) % num_cps for the first cnt values of i.
Batch(idx, n, cnt) == [i \in 1..cnt |-> (idx + i - 1) % n]

\* The steps of a poll cycle at which a client call can raise.
Steps == {"list", "charges", "wallet"}

\* What a failing client call of a cycle raises.
StepFailures == {Raised("CommunicationError"), RateLimitError(3, NoTime)}

\* The last entries of sequence q, MaxRun at most.
Recent(q) == IF Len(q) > MaxRun THEN SubSeq(q, Len(q) - MaxRun + 1, Len(q)) ELSE q

\* _async_update_data step by step.  Step 1: the charge-point list is
\* fetched when there is no cache or the cache is due (due), bringing m
\* charge points, and the index is reset.  Step 2: charges are fetched for
\* a batch of charge points from the index on, and the index advanced.
\* Step 3: wallet and transactions are fetched when due (wallet).  The
\* client call of step failed raises e (in step 2 after cnt charge points
\* were fetched); "none": no call raises.
_async_update_data_steps ==
    \E due \in BOOLEAN, m \in 0..MaxCps, wallet \in BOOLEAN,
       failed \in Steps \cup {"none"}, cnt \in 0..(DEFAULT_CHARGES_BATCH_SIZE - 1),
       e \in StepFailures, j \in Jitters :
        LET k == Called("poll")
            refresh == due \/ coord.cps = NoCache
            listed == refresh /\ failed # "list"
            n == IF listed THEN m ELSE coord.cps
            from == IF listed THEN 0 ELSE coord._charges_index
            batch_size == Min(DEFAULT_CHARGES_BATCH_SIZE, n)
            done == IF failed = "charges" THEN cnt ELSE batch_size
            fetched == IF failed = "list" THEN <<>> ELSE Batch(from, n, done)
            advanced == failed \in {"none", "wallet"}
            r == IF failed = "none" THEN Returned(NoToken) ELSE e
            polled == [k EXCEPT
                    !.client = r,
                    !.result = Surface(r),
                    !.update_interval =
                        IF r.kind = "ok" THEN AfterSuccess(@)
                        ELSE IF r.kind = "RateLimitError" THEN Backoff(@, r.retry_after, j)
                        ELSE @,
                    !.cps = IF failed = "list" THEN @ ELSE n,
                    !._charges_index = IF advanced THEN Advance(from, n) ELSE from,
                    !.cycle = [ran |-> TRUE, refreshed |-> listed, n |-> n,
                               from |-> coord._charges_index,
                               fetched |-> fetched, failed |-> failed],
                    !.run = IF failed # "none" THEN <<>>
                            ELSE IF listed THEN <<fetched>>
                            ELSE Recent(Append(@, fetched))]
        IN  /\ (failed = "list") => refresh
            /\ (failed = "charges") => cnt < batch_size
            /\ (failed = "wallet") => wallet
            /\ refresh \/ m = 0
            /\ (failed = "charges") \/ cnt = 0
            /\ (failed # "none") \/ e = Raised("CommunicationError")
            /\ (r.kind = "RateLimitError") \/ j = 0
            /\ (coord.cps = NoCache) => due
            /\ coord' = IF r.kind = "ok" THEN _handle_coordinator_update(polled) ELSE polled
            /\ UNCHANGED <<clientVars, listing, hass, flow, logged, sched>>

InitStagger == ClientIdle /\ HostIdle

NextStagger == _async_update_data_steps

SpecStagger == InitStagger /\ [][NextStagger]_vars

\* The positions of a sequence.
Fetched(q) == {q[i] : i \in 1..Len(q)}

\* The last cycle ran over a non-empty cache that it did not refresh.
Staggered == coord.cycle.ran /\ ~coord.cycle.refreshed /\ coord.cycle.n > 0

\* A successful cycle fetched min(4, n) distinct charge points from the
\* index on and advanced the index by as many, modulo n.
SuccessfulBatch ==
    LET y == coord.cycle
        b == Min(DEFAULT_CHARGES_BATCH_SIZE, y.n)
    IN  /\ Len(y.fetched) = b
        /\ Cardinality(Fetched(y.fetched)) = b
        /\ \A i \in 1..b : y.fetched[i] = (y.from + i - 1) % y.n
        /\ coord._charges_index = (y.from + b) % y.n

\* Every ceil(n/4) successful cycles that followed one another fetched
\* every cached charge point between them.
Covered ==
    LET w == CeilDiv(coord.cps, DEFAULT_CHARGES_BATCH_SIZE)
        q == coord.run
    IN  Len(q) >= w =>
            UNION {Fetched(q[i]) : i \in (Len(q) - w + 1)..Len(q)} = 0..(coord.cps - 1)

\* C37 as stated: with n > 0 cached charge points and no list refresh, a
\* successful cycle fetches charges for min(4, n) distinct charge points
\* from charges_index on and advances charges_index by as many modulo n;
\* charges_index stays in [0, n); ceil(n/4) consecutive successful cycles
\* fetch every cached charge point; a cycle that fails leaves charges_index
\* as it was.
C37_FailedCycleKeepsIndex ==
    /\ coord.cps > 0 => coord._charges_index \in 0..(coord.cps - 1)
    /\ coord.cps > 0 => Covered
    /\ Staggered =>
        /\ coord.cycle.failed = "none" => SuccessfulBatch
        /\ coord.cycle.failed # "none" => coord._charges_index = coord.cycle.from

\* C37, amended: as above, but a failing cycle leaves charges_index as it
\* was when it fails before the batch is complete; a cycle that fails in the
\* wallet step, after the batch, has fetched the batch and advanced
\* charges_index like a successful one.
C37_StaggeredCharges ==
    /\ coord.cps > 0 => coord._charges_index \in 0..(coord.cps - 1)
    /\ coord.cps > 0 => Covered
    /\ Staggered =>
        /\ coord.cycle.failed \in {"none", "wallet"} => SuccessfulBatch
        /\ coord.cycle.failed = "charges" => coord._charges_index = coord.cycle.from

\* Two successful cycles in a row over five charge points, the second
\* wrapping around the end of the list.
C37_Witness ==
    /\ Staggered
    /\ coord.cycle.failed = "none"
    /\ coord.cps = 5
    /\ coord.cycle.from = 4
    /\ coord._charges_index = 3
    /\ Len(coord.run) = 2


\* ------------------------------------------------- setup and token store
\* Setups followed.
MaxSetups == 2

\* The entry whose setups are followed, and the coroutine of its refresh.
TheEntry == "e1"
Refresher == "c1"

\* A variant of the removal that leaves the store as it is.
MutRemoveKeeps(st) == st

\* Store.async_remove on a store holding st.
async_remove(st) == NoPrefs

\* async_setup_entry up to its first refresh: the token store is removed, a
\* client constructed over it (no preferences loaded, gate open, lock free)
\* and the coordinator registered under the entry id.
async_setup_entry_begin(e) ==
    /\ ~hass.loaded[e]
    /\ hass.last[e] # "refreshing"
    /\ hass.constructed < MaxSetups
    /\ \A c \in Callers : pc[c] = "idle"
    /\ store' = async_remove(store)
    /\ prefs' = NoPrefs
    /\ rate_limited_until' = NoTime
    /\ lock' = NoCaller
    /\ waiters' = <<>>
    /\ hass' = [hass EXCEPT !.data[e] = Register(hass.constructed + 1),
                            !.constructed = @ + 1,
                            !.found[e] = hass.data[e],
                            !.last[e] = "refreshing",
                            !.removed = store]
    /\ UNCHANGED <<now, pc, op, req, attempt, wake, resp, ret, hist,
                   listing, coord, flow, logged, sched>>

\* The first refresh calls the client.
FirstRefresh(e, c) ==
    /\ hass.last[e] = "refreshing"
    /\ Invoke(c, LockedOps)
    /\ UNCHANGED hostVars

\* async_setup_entry from the end of its first refresh: the entry is loaded
\* when the refresh succeeded, the setup raises when it failed.
async_setup_entry_end(e, c) ==
    /\ hass.last[e] = "refreshing"
    /\ Return(c)
    /\ hass' = [hass EXCEPT !.loaded[e] = ret[c].kind = "ok",
                            !.last[e] = IF ret[c].kind = "ok" THEN "setup"
                                        ELSE "setup_raised"]
    /\ UNCHANGED <<listing, coord, flow, logged, sched>>

\* An earlier run left anything in the store; the entry is set up, unloaded
\* and set up again (as async_reload_entry does), or set up again after a
\* setup that raised.
InitSetup == Init

NextSetup ==
    \/ async_setup_entry_begin(TheEntry)
    \/ FirstRefresh(TheEntry, Refresher)
    \/ Enter(Refresher) /\ UNCHANGED hostVars
    \/ Responds(Refresher, PairPayloads) /\ UNCHANGED hostVars
    \/ Wake(Refresher) /\ UNCHANGED hostVars
    \/ Elapse /\ UNCHANGED hostVars
    \/ async_setup_entry_end(TheEntry, Refresher)
    \/ async_unload_entry(TheEntry)

SpecSetup == InitSetup /\ [][NextSetup]_vars

\* In this step a setup removes the store and constructs the client.
Constructs == hass'.constructed > hass.constructed

\* In this step the client runs get_access_token() for the first time: it
\* has not loaded its preferences yet.
FirstTokenCall(c) == ~prefs.set /\ Passes(c)

\* C38: every setup removes the persisted token store before it constructs
\* the client, so that the first get_access_token() after a setup or reload
\* finds no token state and authenticates with the client credentials (one
\* auth/token call, no refresh call), whatever an earlier run persisted.
C38_SetupStartsWithoutTokens ==
    [][/\ Constructs => ~store'.set /\ ~prefs'.set
       /\ FirstTokenCall(Refresher) =>
            /\ ~store.set
            /\ prefs' = EmptyPrefs
            /\ hist'[Refresher].route = "authenticate"
            /\ hist'[Refresher].calls = One("auth/token")
            /\ hist'[Refresher].http = One("auth/token")]_vars

\* The store held an access token and a refresh token when the setup
\* removed it, and the first refresh of that setup has sent auth/token.
C38_Witness ==
    /\ hass.removed.set
    /\ hass.removed.access_token # NoToken
    /\ hass.removed.refresh_token # NoToken
    /\ hass.last[TheEntry] = "refreshing"
    /\ pc[Refresher] = "inflight"
    /\ hist[Refresher].route = "authenticate"
    /\ req[Refresher].path = "auth/token"

====
